---- MODULE Spec2Model ----
(***************************************************************************)
(* Model of the bulk e-mail sender (repository toshak-312/Email_Maniac).   *)
(*                                                                         *)
(* The repository holds several near-duplicate desktop variants of one     *)
(* program.  The variable `variant' names the source file whose code the   *)
(* behaviour follows:                                                      *)
(*   "QAQA"        src/QAQA.py        (profiles, CC, persistent ledger)    *)
(*   "F_EMAIL"     src/F_EMAIL.py     (profiles, in-memory timer)          *)
(*   "GEMEME"      src/GEMEME.py      (profiles, in-memory timer)          *)
(*   "internship"  src/internship_email_sender.py (worker thread)          *)
(*   "email_sent_gemini"  src/email_sent_gemini.py (one configuration, no  *)
(*                 schedule, the rows are checked inside the send loop)    *)
(*   "bulk_email_sender_app"  src/bulk_email_sender_app.py (worker thread  *)
(*                 reading the live table; ThreadSpec only)                *)
(*   "email_app"   src/email_app.py   (Streamlit page; AppSpec only)       *)
(*                                                                         *)
(* Time.  The wall clock `now' counts ticks.  A slot is the unit of the    *)
(* "%H:%M" text (one slot stands for 15 minutes of wall clock, the lead    *)
(* QAQA.py:70 adds to the start-up time); SubTicks ticks make a slot, so   *)
(* the clock can stand exactly on a slot boundary (seconds and             *)
(* microseconds zero) or strictly inside a slot.                           *)
(*                                                                         *)
(* Scope.  One step is one handler, or one network call of a dispatch      *)
(* run.  The CV file a profile names exists and is a PDF.  The boxes a     *)
(* send handler ends with are kept in the variable `dialog'.  The error    *)
(* box of an except clause of _perform_email_sending is open in the state  *)
(* before the finally clause; BoxSpec adds the timer callbacks that fire   *)
(* inside it.  The ledger file is written atomically and the write         *)
(* succeeds.                                                               *)
(***************************************************************************)
EXTENDS Integers, Sequences, FiniteSets, TLC

\* ------------------------------------------------------------------ bounds
MaxTime == 2
MaxRows == 3
MaxCampaigns == 2
MaxNesting == 1

\* --------------------------------------------------------- small universes
Variants == {"QAQA", "F_EMAIL", "GEMEME", "internship", "email_sent_gemini"}
ProfileVariants == {"QAQA", "F_EMAIL", "GEMEME"}
LedgerVariants == {"QAQA"}
TimerVariants == {"F_EMAIL", "GEMEME"}

SubTicks == {0, 1}
SlotsOfDay == {0, 1}
TicksPerSlot == Cardinality(SubTicks)
TicksPerDay == TicksPerSlot * Cardinality(SlotsOfDay)
Days == 0..(MaxTime \div TicksPerDay)
Ticks == 0..((MaxTime \div TicksPerDay) * TicksPerDay + TicksPerDay - 1)

PyNone == "<None>"
NoId == "<no campaign>"
NoDt == -1

\* --------------------------------------------------------------- datetime
DayOf(t) == t \div TicksPerDay
SlotOf(t) == (t % TicksPerDay) \div TicksPerSlot
SubOf(t) == t % TicksPerSlot
MkTime(d, s, u) == d * TicksPerDay + s * TicksPerSlot + u

\* strftime("%Y-%m-%d")
FmtDate(t) == "day" \o ToString(DayOf(t))
\* strftime("%H:%M")
FmtHM(t) == "slot" \o ToString(SlotOf(t))
\* strftime("%Y-%m-%d %H:%M:%S")
FmtDateTimeS(t) == FmtDate(t) \o " " \o FmtHM(t) \o ":" \o ToString(SubOf(t))

\* datetime.datetime.strptime(s, "%Y-%m-%d %H:%M:%S"); NoDt stands for ValueError
ParseDateTimeS(s) ==
    IF \E t \in Ticks : FmtDateTimeS(t) = s
    THEN CHOOSE t \in Ticks : FmtDateTimeS(t) = s
    ELSE NoDt

\* datetime.datetime.strptime(f"{date_str} {time_str}", "%Y-%m-%d %H:%M"):
\* seconds and microseconds of the result are zero.
ParseDateHM(date_str, time_str) ==
    IF \E t \in Ticks : SubOf(t) = 0 /\ FmtDate(t) = date_str /\ FmtHM(t) = time_str
    THEN CHOOSE t \in Ticks : SubOf(t) = 0 /\ FmtDate(t) = date_str /\ FmtHM(t) = time_str
    ELSE NoDt

\* datetime.datetime.strptime(time_str, "%H:%M") succeeds
ParsesHM(time_str) == \E s \in SlotsOfDay : FmtHM(MkTime(0, s, 0)) = time_str

\* now.replace(hour=hour, minute=minute, second=0, microsecond=0)
ReplaceHM(t, time_str) ==
    CHOOSE r \in Ticks : DayOf(r) = DayOf(t) /\ SubOf(r) = 0 /\ FmtHM(r) = time_str

\* _validate_schedule_datetime: [kind |-> "none" | "invalid" | "dt", dt |-> tick]
validate_schedule_datetime(date_str, time_str) ==
    IF date_str = "" /\ time_str = "" THEN [kind |-> "none", dt |-> NoDt]
    ELSE IF date_str = "" \/ time_str = "" THEN [kind |-> "invalid", dt |-> NoDt]
    ELSE IF ParseDateHM(date_str, time_str) = NoDt THEN [kind |-> "invalid", dt |-> NoDt]
    ELSE [kind |-> "dt", dt |-> ParseDateHM(date_str, time_str)]

\* _validate_send_time_format
validate_send_time_format(time_str) == time_str = "" \/ ParsesHM(time_str)

\* The texts a user can leave in a time field, and the (date, time) pairs a
\* user can leave in the two schedule fields: both empty, the date missing,
\* an unparseable date, and every well-formed pair.
TimeTexts == {"", "noon"} \cup {FmtHM(MkTime(0, s, 0)) : s \in SlotsOfDay}
ScheduleTexts ==
    {<<"", "">>, <<"", FmtHM(0)>>, <<"31/12", FmtHM(0)>>}
        \cup {<<FmtDate(t), FmtHM(t)>> : t \in {u \in Ticks : SubOf(u) = 0}}

\* ------------------------------------------------------------------- text
\* A text is a sequence of tokens; a placeholder spelling is one token.
\* str.replace(placeholder, value)
RECURSIVE Replace(_, _, _)
Replace(text, token, value) ==
    IF text = <<>> THEN <<>>
    ELSE (IF Head(text) = token THEN value ELSE <<Head(text)>>)
             \o Replace(Tail(text), token, value)

\* DEFAULT_PLACEHOLDERS, in the order the dict is iterated
DEFAULT_PLACEHOLDERS ==
    << [key |-> "FIRST_NAME", token |-> "{{FIRST_NAME}}"],
       [key |-> "LAST_NAME", token |-> "{{LAST_NAME}}"],
       [key |-> "COMPANY_NAME", token |-> "{{COMPANY_NAME}}"],
       [key |-> "ROLE", token |-> "{{ROLE}}"] >>
PlaceholderKeys == {DEFAULT_PLACEHOLDERS[k].key : k \in DOMAIN DEFAULT_PLACEHOLDERS}

\* The characters of the e-mail cells the model uses.
Chars(s) ==
    CASE s = "a@x.io" -> <<"a", "@", "x", ".", "i", "o">>
      [] s = "b@y.org" -> <<"b", "@", "y", ".", "o", "r", "g">>
      [] s = "me@g.com" -> <<"m", "e", "@", "g", ".", "c", "o", "m">>
      [] s = "alt@g.com" -> <<"a", "l", "t", "@", "g", ".", "c", "o", "m">>
      [] s = "boss@z.de" -> <<"b", "o", "s", "s", "@", "z", ".", "d", "e">>
      [] s = "not-an-email" -> <<"n", "o", "t", "-", "a", "n", "-", "e", "m", "a", "i", "l">>
      [] s = "a@x.c" -> <<"a", "@", "x", ".", "c">>
      [] OTHER -> <<>>

Alpha == {"a", "b", "c", "d", "e", "g", "i", "l", "m", "n", "o", "r", "s", "t", "x", "y", "z"}
LocalCh == Alpha \cup {".", "_", "%", "+", "-"}
DomainCh == Alpha \cup {".", "-"}
AllIn(seq, lo, hi, set) == \A k \in lo..hi : seq[k] \in set

\* _is_valid_email: re.match(r"^[a-zA-Z0-9._%+-]+@[a-zA-Z0-9.-]+\.[a-zA-Z]{2,}$", s)
is_valid_email(s) ==
    LET c == Chars(s)
        n == Len(c)
    IN  /\ s # "" /\ s # PyNone
        /\ \E at \in 2..n : \E dot \in (at + 2)..(n - 2) :
              /\ c[at] = "@"
              /\ c[dot] = "."
              /\ AllIn(c, 1, at - 1, LocalCh)
              /\ AllIn(c, at + 1, dot - 1, DomainCh)
              /\ AllIn(c, dot + 1, n, Alpha)

\* ------------------------------------------------------------------ state
VARIABLES
    variant,                    \* the source file the behaviour follows
    now,                        \* datetime.datetime.now(), in ticks
    csv_headers, csv_data,      \* the loaded table
    email_column_var, column_mappings,
    email_subject_var, email_body,
    active_profile_name,
    smtp_email_var, smtp_password_var, cv_file_path,
    enable_cc_var, cc_email_var,
    profile_schedule_date_var, profile_schedule_time_var,
    ui_schedule_date_var, ui_schedule_time_var,
    preferred_send_time_var,
    scheduled_campaigns,        \* the ledger: campaign id -> entry
    file,                       \* text of scheduled_campaigns.json
    issued,                     \* campaign ids handed out so far
    timers,                     \* F_EMAIL/GEMEME: pending root.after callbacks
    pc,                         \* position of the running handler
    run,                        \* locals of _perform_email_sending
    queue,                      \* campaigns_to_send_now still to be executed
    startup_due,                \* campaigns_to_send_now held by the open start-up prompt
    dialog,                     \* title of the modal message box that is open
    startup_pending,            \* the 2000 ms start-up check has not fired yet
    suspended,                  \* handlers waiting in a message box while a timer callback runs
    config_active               \* active_profile_name in the saved configuration

tableVars == <<csv_headers, csv_data, email_column_var, column_mappings,
               email_subject_var, email_body>>
profileVars == <<active_profile_name, smtp_email_var, smtp_password_var, cv_file_path,
                 enable_cc_var, cc_email_var,
                 profile_schedule_date_var, profile_schedule_time_var,
                 preferred_send_time_var>>
uiScheduleVars == <<ui_schedule_date_var, ui_schedule_time_var>>
ledgerVars == <<scheduled_campaigns, file, issued>>
checkVars == <<queue, startup_due, dialog, startup_pending>>
vars == <<variant, now, tableVars, profileVars, uiScheduleVars, ledgerVars, timers,
          pc, run, checkVars, suspended, config_active>>

\* ------------------------------------------------------------- the table
\* csv.DictReader rows; the headers are kept sorted (QAQA.py:455)
Headers == <<"Company", "Email", "First Name">>
Row(email, first, org) ==
    ("Company" :> org) @@ ("Email" :> email) @@ ("First Name" :> first)
FullTable(k) ==
    CASE k % 4 = 1 -> Row("a@x.io", <<"Ada">>, <<"Acme">>)
      [] k % 4 = 2 -> Row("not-an-email", <<"Bob">>, <<"Bolt">>)
      [] k % 4 = 3 -> Row("b@y.org", <<"Cy">>, <<"{{ROLE}}">>)
      [] OTHER -> Row("a@x.io", <<"Dee">>, <<>>)
Tables == {[k \in 1..MaxRows |-> FullTable(k)]}

\* row_data.get(col): None when the row has no such column
RowGet(row, col) == IF col \in DOMAIN row THEN row[col] ELSE PyNone

\* QAQA.py:644-649: the value of one placeholder for one row
ValueToInsert(mappings, key, row) ==
    LET col == mappings[key]
    IN  IF col # "" /\ col # "Not Mapped" /\ col \in DOMAIN row THEN row[col] ELSE <<>>

\* The tokens of the placeholder set.
KnownTokens == {DEFAULT_PLACEHOLDERS[k].token : k \in DOMAIN DEFAULT_PLACEHOLDERS}

\* QAQA.py:643-649: every placeholder replaced in turn, in dict order
RECURSIVE RenderFrom(_, _, _, _)
RenderFrom(text, mappings, row, k) ==
    IF k > Len(DEFAULT_PLACEHOLDERS) THEN text
    ELSE RenderFrom(Replace(text, DEFAULT_PLACEHOLDERS[k].token,
                            ValueToInsert(mappings, DEFAULT_PLACEHOLDERS[k].key, row)),
                    mappings, row, k + 1)

\* A rendering that also takes out the tokens it does not know.
RenderStrippingUnknown(text, mappings, row) ==
    LET plain(tok) == tok # "{{NICKNAME}}"
    IN  SelectSeq(RenderFrom(text, mappings, row, 1), plain)

Render(text, mappings, row) == RenderFrom(text, mappings, row, 1)

\* QAQA.py:639-650: the send list of a table
RECURSIVE BuildFrom(_, _, _, _, _, _)
BuildFrom(rows, i, email_col, mappings, subject, body) ==
    IF i > Len(rows) THEN <<>>
    ELSE LET recipient_email == RowGet(rows[i], email_col)
             rest == BuildFrom(rows, i + 1, email_col, mappings, subject, body)
         IN  IF recipient_email = PyNone \/ recipient_email = ""
                    \/ ~is_valid_email(recipient_email)
             THEN rest
             ELSE << [recipient_email |-> recipient_email,
                      subject |-> Render(subject, mappings, rows[i]),
                      body |-> Render(body, mappings, rows[i]),
                      row_identifier |-> i] >> \o rest
\* A send list that keeps one entry for each address.
build_send_list_dedup(rows, email_col, mappings, subject, body) ==
    LET all == BuildFrom(rows, 1, email_col, mappings, subject, body)
        first(e) == \A k \in DOMAIN all :
                       all[k].recipient_email = e.recipient_email
                           => all[k].row_identifier >= e.row_identifier
    IN  SelectSeq(all, first)

build_send_list(rows, email_col, mappings, subject, body) ==
    BuildFrom(rows, 1, email_col, mappings, subject, body)

\* ---------------------------------------------------------------- profiles
DEFAULT_PROFILE_NAME == "Default Profile"
SavedMappings ==
    [FIRST_NAME |-> "First Name", LAST_NAME |-> "", COMPANY_NAME |-> "Company",
     ROLE |-> "Not Mapped"]
SubjectTemplate == <<"Hello", "{{FIRST_NAME}}", "{{NICKNAME}}">>
BodyTemplate == <<"Dear", "{{FIRST_NAME}}", "{{LAST_NAME}}", "at", "{{COMPANY_NAME}}", "{{ROLE}}">>
Profiles ==
    (DEFAULT_PROFILE_NAME :>
        [smtp_email |-> "me@g.com", smtp_password |-> "app-pw-1", cv_file_path |-> "cv.pdf",
         enable_cc |-> TRUE, cc_email |-> "boss@z.de",
         email_column |-> "Email", column_mappings |-> SavedMappings,
         email_subject |-> SubjectTemplate, email_body |-> BodyTemplate,
         schedule_date |-> "", schedule_time |-> "", preferred_send_time |-> ""])
    @@ ("Second Profile" :>
        [smtp_email |-> "alt@g.com", smtp_password |-> "app-pw-2", cv_file_path |-> "",
         enable_cc |-> FALSE, cc_email |-> "",
         email_column |-> "Email", column_mappings |-> SavedMappings,
         email_subject |-> SubjectTemplate, email_body |-> BodyTemplate,
         schedule_date |-> FmtDate(MkTime(0, 1, 0)),
         schedule_time |-> FmtHM(MkTime(0, 1, 0)),
         preferred_send_time |-> FmtHM(MkTime(0, 1, 0))])


\* An entry-shaped record for a run that is for no ledger entry.
NoEntry ==
    [scheduled_datetime_str |-> "", emails_to_send_list |-> <<>>,
     sender_email |-> "", sender_password |-> "", cv_path |-> "", status |-> "",
     profile_name_at_schedule |-> ""]
\* No message has been handed to the transport yet.
NoCall ==
    [to |-> "", rcpts |-> <<>>, subject |-> <<>>, body |-> <<>>,
     attached |-> FALSE, ok |-> FALSE]

\* The locals of a dispatch run.  cid / cdata: the scheduled campaign the run
\* is for (send_emails_process's campaign_id_to_send, scheduled_campaign_data);
\* target: the datetime a deferred run was scheduled for; i: recipients
\* processed; n_calls / last_call: calls of server.sendmail so far and the
\* latest of them; delay: delay_ms of F_EMAIL.py:884 while its prompt is open.
IdleRun ==
    [emails |-> <<>>, is_test |-> FALSE, cid |-> NoId, cdata |-> NoEntry, target |-> NoDt,
     sender_email |-> "", sender_password |-> "", cv_path |-> "",
     enable_cc |-> FALSE, cc_email |-> "",
     i |-> 0, sent_count |-> 0, failed_count |-> 0, progress |-> 0,
     conn |-> "none", error |-> "none", n_calls |-> 0, last_call |-> NoCall, delay |-> 0]

\* ------------------------------------------------------- column mapping
\* The words of a header text; " " and "_" are words of their own.
Words(h) ==
    CASE h = "Email" -> <<"Email">>
      [] h = "Email Address" -> <<"Email", " ", "Address">>
      [] h = "First Name" -> <<"First", " ", "Name">>
      [] h = "Org" -> <<"Org">>
      [] h = "Company" -> <<"Company">>
      [] h = "Employer" -> <<"Employer">>
      [] h = "E-mail" -> <<"E-mail">>
      [] h = "Last Name" -> <<"Last", " ", "Name">>
      [] h = "Company Name" -> <<"Company", " ", "Name">>
      [] OTHER -> <<h>>
\* str.lower() of one word
Lower(w) ==
    CASE w = "Email" -> "email"
      [] w = "Address" -> "address"
      [] w = "First" -> "first"
      [] w = "Name" -> "name"
      [] w = "Org" -> "org"
      [] w = "Company" -> "company"
      [] w = "Employer" -> "employer"
      [] w = "E-mail" -> "e-mail"
      [] w = "Last" -> "last"
      [] w = "Role" -> "role"
      [] OTHER -> w
\* header.lower().replace(" ", "").replace("_", "")
RECURSIVE Squash(_)
Squash(ws) ==
    IF ws = <<>> THEN ""
    ELSE (IF Head(ws) \in {" ", "_"} THEN "" ELSE Lower(Head(ws))) \o Squash(Tail(ws))
Normalize(h) == Squash(Words(h))

AUTO_DETECT_PATTERNS ==
    [email_column |-> {"email", "e-mail", "email address", "e mail"},
     FIRST_NAME |-> {"firstname", "first name", "given name", "first", "fname"},
     LAST_NAME |-> {"lastname", "last name", "surname", "lname"},
     COMPANY_NAME |-> {"companyname", "company name", "organization", "company", "employer"},
     ROLE |-> {"role", "position", "job title", "applied for", "job"}]

InSeq(x, seq) == \E k \in DOMAIN seq : seq[k] = x

\* the first header whose normalized form is in the pattern set, or PyNone
FirstMatch(headers, patterns) ==
    IF \E k \in DOMAIN headers : Normalize(headers[k]) \in patterns
    THEN headers[CHOOSE k \in DOMAIN headers :
                    /\ Normalize(headers[k]) \in patterns
                    /\ \A j \in 1..(k - 1) : Normalize(headers[j]) \notin patterns]
    ELSE PyNone

\* update_column_mapping_dropdowns: a value that is no option becomes "Not Mapped"
Dropdown(headers, value) ==
    IF value = "Not Mapped" \/ InSeq(value, headers) THEN value ELSE "Not Mapped"

\* A detection that takes the first matching header whatever is mapped.
auto_detect_columns_afresh(headers, email_col, mappings) ==
    IF headers = <<>>
    THEN [email_column |-> email_col, column_mappings |-> mappings]
    ELSE [email_column |->
              Dropdown(headers, FirstMatch(headers, AUTO_DETECT_PATTERNS.email_column)),
          column_mappings |->
              [key \in PlaceholderKeys |->
                  Dropdown(headers, FirstMatch(headers, AUTO_DETECT_PATTERNS[key]))]]

\* _auto_detect_columns followed by update_column_mapping_dropdowns:
\* [email_column |-> ..., column_mappings |-> ...]
auto_detect_columns(headers, email_col, mappings) ==
    IF headers = <<>>
    THEN [email_column |-> email_col, column_mappings |-> mappings]
    ELSE
      LET em == IF email_col = "" \/ ~InSeq(email_col, headers)
                THEN (IF FirstMatch(headers, AUTO_DETECT_PATTERNS.email_column) # PyNone
                      THEN FirstMatch(headers, AUTO_DETECT_PATTERNS.email_column)
                      ELSE email_col)
                ELSE email_col
          one(key) ==
              LET cur == mappings[key]
              IN  IF cur = "" \/ cur = "Not Mapped" \/ ~InSeq(cur, headers)
                  THEN (IF FirstMatch(headers, AUTO_DETECT_PATTERNS[key]) # PyNone
                        THEN FirstMatch(headers, AUTO_DETECT_PATTERNS[key])
                        ELSE "Not Mapped")
                  ELSE cur
      IN  [email_column |-> Dropdown(headers, em),
           column_mappings |-> [key \in PlaceholderKeys |-> Dropdown(headers, one(key))]]

\* ------------------------------------------------------------ ledger file
\* json.dump / json.load of the ledger.  A Python str becomes a quoted JSON
\* string and None becomes null; lists and dicts keep their shape.
JsonStr(v) == IF v = PyNone THEN "null" ELSE "\"" \o v \o "\""
JsonTexts ==
    {PyNone, "", "cv.pdf", "pending", "error_invalid_date"}
        \cup DOMAIN Profiles
        \cup {Profiles[p].smtp_email : p \in DOMAIN Profiles}
        \cup {Profiles[p].smtp_password : p \in DOMAIN Profiles}
        \cup {FmtDateTimeS(t) : t \in Ticks}
PyStr(j) == CHOOSE v \in JsonTexts : JsonStr(v) = j
EntryKeys ==
    {"scheduled_datetime_str", "sender_email", "sender_password", "cv_path", "status",
     "profile_name_at_schedule"}
JsonEntry(e) ==
    [k \in DOMAIN e |-> IF k \in EntryKeys THEN JsonStr(e[k]) ELSE e[k]]
PyEntry(j) ==
    [k \in DOMAIN j |-> IF k \in EntryKeys THEN PyStr(j[k]) ELSE j[k]]
NoFile == [exists |-> FALSE, text |-> <<>>]
json_dump(ledger) ==
    [exists |-> TRUE, text |-> [cid \in DOMAIN ledger |-> JsonEntry(ledger[cid])]]
\* load_scheduled_campaigns_from_file
load_scheduled_campaigns_from_file(f) ==
    IF f.exists THEN [cid \in DOMAIN f.text |-> PyEntry(f.text[cid])] ELSE <<>>
\* A save that leaves the file as it was.
SaveNothing(ledger) == file

\* save_scheduled_campaigns_to_file
save_scheduled_campaigns_to_file(ledger) == json_dump(ledger)

\* ------------------------------------------------------------- start-up
\* load_profile_data followed by update_column_mapping_dropdowns
load_profile_data(profile_name) ==
    LET profile_data == Profiles[profile_name]
    IN  /\ active_profile_name' = profile_name
        /\ cv_file_path' = profile_data.cv_file_path
        /\ email_column_var' = Dropdown(csv_headers', profile_data.email_column)
        /\ column_mappings' =
              [key \in PlaceholderKeys |->
                  Dropdown(csv_headers', profile_data.column_mappings[key])]
        /\ email_subject_var' = profile_data.email_subject
        /\ email_body' = profile_data.email_body
        /\ smtp_email_var' = profile_data.smtp_email
        /\ smtp_password_var' = profile_data.smtp_password
        /\ enable_cc_var' = (variant \in LedgerVariants /\ profile_data.enable_cc)
        /\ cc_email_var' = IF variant \in LedgerVariants THEN profile_data.cc_email ELSE ""
        /\ profile_schedule_date_var' =
              IF variant \in LedgerVariants THEN profile_data.schedule_date ELSE ""
        /\ profile_schedule_time_var' =
              IF variant \in LedgerVariants THEN profile_data.schedule_time ELSE ""
        /\ preferred_send_time_var' =
              IF variant \in TimerVariants THEN profile_data.preferred_send_time ELSE ""

\* QAQA.py:69-70: the schedule fields start at today and now + 15 minutes
\* (one slot); the other variants have no such fields.
UiScheduleAtStart(t) ==
    IF variant \in LedgerVariants
    THEN <<FmtDate(t), FmtHM(t + TicksPerSlot)>>
    ELSE <<"", "">>

\* __init__: what a start of the application leaves, given the ledger file
\* and the saved active profile.
Boot(f, profile_name) ==
    /\ scheduled_campaigns' =
          IF variant \in LedgerVariants THEN load_scheduled_campaigns_from_file(f) ELSE <<>>
    /\ csv_headers' = <<>>
    /\ csv_data' = <<>>
    /\ load_profile_data(profile_name)
    /\ ui_schedule_date_var' = UiScheduleAtStart(now)[1]
    /\ ui_schedule_time_var' = UiScheduleAtStart(now)[2]
    /\ timers' = {}
    /\ pc' = "idle"
    /\ run' = IdleRun
    /\ queue' = <<>>
    /\ startup_due' = <<>>
    /\ dialog' = "none"
    /\ startup_pending' = (variant \in LedgerVariants)
    /\ suspended' = <<>>

Init ==
    /\ variant \in Variants
    /\ now = 0
    /\ csv_headers = <<>>
    /\ csv_data = <<>>
    /\ email_column_var = "Not Mapped"
    /\ column_mappings = [key \in PlaceholderKeys |-> "Not Mapped"]
    /\ email_subject_var = SubjectTemplate
    /\ email_body = BodyTemplate
    /\ active_profile_name = DEFAULT_PROFILE_NAME
    /\ smtp_email_var = Profiles[DEFAULT_PROFILE_NAME].smtp_email
    /\ smtp_password_var = Profiles[DEFAULT_PROFILE_NAME].smtp_password
    /\ cv_file_path = Profiles[DEFAULT_PROFILE_NAME].cv_file_path
    /\ enable_cc_var = (variant \in LedgerVariants /\ Profiles[DEFAULT_PROFILE_NAME].enable_cc)
    /\ cc_email_var =
          IF variant \in LedgerVariants THEN Profiles[DEFAULT_PROFILE_NAME].cc_email ELSE ""
    /\ profile_schedule_date_var = ""
    /\ profile_schedule_time_var = ""
    /\ ui_schedule_date_var = UiScheduleAtStart(0)[1]
    /\ ui_schedule_time_var = UiScheduleAtStart(0)[2]
    /\ preferred_send_time_var = ""
    /\ scheduled_campaigns = <<>>
    /\ file = NoFile
    /\ issued = 0
    /\ timers = {}
    /\ pc = "idle"
    /\ run = IdleRun
    /\ queue = <<>>
    /\ startup_due = <<>>
    /\ dialog = "none"
    /\ startup_pending = (variant \in LedgerVariants)
    /\ suspended = <<>>
    /\ config_active = DEFAULT_PROFILE_NAME

\* ------------------------------------------------------------ environment
\* The wall clock advances by one tick.  A tick is minutes long, the
\* start-up check fires 2000 ms after the start (QAQA.py:93): it has fired
\* before the first tick of a session.
Tick ==
    /\ now < MaxTime
    /\ ~startup_pending
    /\ now' = now + 1
    /\ UNCHANGED <<variant, suspended, tableVars, profileVars, uiScheduleVars, ledgerVars, timers,
                   pc, run, checkVars, config_active>>

\* The event loop is free to run a handler for a user event: no handler is
\* running or waiting in a message box, and no modal box or prompt is open.
UiFree ==
    pc = "idle" /\ queue = <<>> /\ dialog = "none" /\ startup_due = <<>> /\ suspended = <<>>

\* ----------------------------------------------------------- user events
\* load_csv_files -> _load_csv_data_from_paths, for a file with the given
\* (sorted) headers and rows
LoadTable(headers, table) ==
    /\ UiFree
    /\ csv_data' = table
    /\ csv_headers' = headers
    /\ LET m == auto_detect_columns(headers, email_column_var, column_mappings)
       IN  /\ email_column_var' = m.email_column
           /\ column_mappings' = m.column_mappings
    /\ UNCHANGED <<variant, suspended, now, email_subject_var, email_body, profileVars, uiScheduleVars,
                   ledgerVars, timers, pc, run, checkVars, config_active>>

load_csv_files(table) == LoadTable(Headers, table)

\* set_and_load_profile -> load_profile_data
set_and_load_profile(profile_name) ==
    /\ UiFree
    /\ variant \in ProfileVariants
    /\ profile_name # active_profile_name
    /\ UNCHANGED <<csv_headers, csv_data>>
    /\ load_profile_data(profile_name)
    \* QAQA.py:195-198: an empty schedule field takes the profile's default
    /\ ui_schedule_date_var' =
          IF ui_schedule_date_var = "" /\ profile_schedule_date_var' # ""
          THEN profile_schedule_date_var' ELSE ui_schedule_date_var
    /\ ui_schedule_time_var' =
          IF ui_schedule_time_var = "" /\ profile_schedule_time_var' # ""
          THEN profile_schedule_time_var' ELSE ui_schedule_time_var
    /\ UNCHANGED <<variant, suspended, now, ledgerVars, timers, pc, run, checkVars, config_active>>

\* The user types into the schedule date and time entries (QAQA.py:377-379).
EditSchedule(texts) ==
    /\ UiFree
    /\ variant \in LedgerVariants
    /\ <<ui_schedule_date_var, ui_schedule_time_var>> # texts
    /\ ui_schedule_date_var' = texts[1]
    /\ ui_schedule_time_var' = texts[2]
    /\ UNCHANGED <<variant, suspended, now, tableVars, profileVars, ledgerVars, timers,
                   pc, run, checkVars, config_active>>

\* The user types into the preferred send time entry (F_EMAIL.py:482).
EditPreferredSendTime(text) ==
    /\ UiFree
    /\ variant \in TimerVariants
    /\ preferred_send_time_var # text
    /\ preferred_send_time_var' = text
    /\ UNCHANGED <<variant, suspended, now, tableVars, active_profile_name, smtp_email_var,
                   smtp_password_var, cv_file_path, enable_cc_var, cc_email_var,
                   profile_schedule_date_var, profile_schedule_time_var, uiScheduleVars,
                   ledgerVars, timers, pc, run, checkVars, config_active>>

\* The user closes a message box (showerror / showwarning / showinfo).
Dismiss ==
    /\ dialog \notin {"none", "Confirm Schedule"}
    /\ dialog' = "none"
    /\ UNCHANGED <<variant, suspended, now, tableVars, profileVars, uiScheduleVars, ledgerVars, timers,
                   pc, run, queue, startup_due, startup_pending, config_active>>

\* ------------------------------------------------------- dispatch engine
\* What smtplib.SMTP(host, 587) can do: answer, answer with a bad greeting
\* (SMTPConnectError), or fail in the socket layer (refused connection,
\* timeout, name resolution).
ConnectOutcomes ==
    {"ok", "SMTPConnectError", "ConnectionRefusedError", "TimeoutError", "gaierror"}
LoginOutcomes == {"ok", "SMTPAuthenticationError"}
\* 'N/A for test' in the closing log line
NA == -2

\* A run that takes sender, credential and attachment from the ledger entry
\* of the campaign it is for.
NewRunFromEntry(emails, is_test, cid, cdata, target) ==
    [emails |-> emails, is_test |-> is_test, cid |-> cid, cdata |-> cdata, target |-> target,
     sender_email |-> IF cid # NoId THEN cdata.sender_email ELSE smtp_email_var,
     sender_password |-> IF cid # NoId THEN cdata.sender_password ELSE smtp_password_var,
     cv_path |-> IF cid # NoId THEN cdata.cv_path ELSE cv_file_path,
     enable_cc |-> enable_cc_var, cc_email |-> cc_email_var,
     i |-> 0, sent_count |-> 0, failed_count |-> 0, progress |-> 0,
     conn |-> "none", error |-> "none", n_calls |-> 0, last_call |-> NoCall, delay |-> 0]

\* _perform_email_sending, up to the try (QAQA.py:546-562): the settings are
\* read from the UI variables when the run starts.  The CV file a profile
\* names is taken to exist (os.path.exists is true at :551 and :579).
NewRun(emails, is_test, cid, cdata, target) ==
    [emails |-> emails, is_test |-> is_test, cid |-> cid, cdata |-> cdata, target |-> target,
     sender_email |-> smtp_email_var, sender_password |-> smtp_password_var,
     cv_path |-> cv_file_path,
     enable_cc |-> enable_cc_var, cc_email |-> cc_email_var,
     i |-> 0, sent_count |-> 0, failed_count |-> 0, progress |-> 0,
     conn |-> "none", error |-> "none", n_calls |-> 0, last_call |-> NoCall, delay |-> 0]

\* The except clauses: the failed count after the clause for r.error ran
\* (QAQA.py:595-597, F_EMAIL.py:796-806, GEMEME.py:722-732,
\* email_sent_gemini.py:568-577).
FailedAfterExcept(r) ==
    IF variant \in TimerVariants \cup {"email_sent_gemini"} /\ ~r.is_test
           /\ r.error \in {"SMTPAuthenticationError", "SMTPConnectError"}
    THEN Len(r.emails) - r.sent_count
    ELSE r.failed_count

\* The locals after the exception named err was caught.
Except(r, err) ==
    LET e == [r EXCEPT !.error = err]
    IN  [e EXCEPT !.failed_count = FailedAfterExcept(e)]

\* smtplib.SMTP(host, 587); server.ehlo(); server.starttls(); server.ehlo()
Connect(outcome) ==
    /\ pc = "connect"
    /\ IF outcome = "ok"
       THEN /\ run' = [run EXCEPT !.conn = "open"]
            /\ pc' = "login"
       ELSE /\ run' = Except(run, outcome)
            /\ pc' = "finally"
    /\ UNCHANGED <<variant, suspended, now, tableVars, profileVars, uiScheduleVars, ledgerVars, timers,
                   checkVars, config_active>>

\* A login whose failure is recorded but does not end the run.
LoginIgnoringFailure(outcome) ==
    /\ pc = "login"
    /\ run' = IF outcome = "ok" THEN run ELSE Except(run, outcome)
    /\ pc' = "loop"
    /\ UNCHANGED <<variant, suspended, now, tableVars, profileVars, uiScheduleVars, ledgerVars, timers,
                   checkVars, config_active>>

\* server.login(sender_email, sender_password)
Login(outcome) ==
    /\ pc = "login"
    /\ IF outcome = "ok"
       THEN /\ run' = run
            /\ pc' = "loop"
       ELSE /\ run' = Except(run, outcome)
            /\ pc' = "finally"
    /\ UNCHANGED <<variant, suspended, now, tableVars, profileVars, uiScheduleVars, ledgerVars, timers,
                   checkVars, config_active>>

\* The envelope of a message that goes to its To address only.
AllRecipientsToOnly(r, recipient_email) == <<recipient_email>>

\* QAQA.py:572-575, 586: the envelope recipients of one message
AllRecipients(r, recipient_email) ==
    IF variant \in LedgerVariants /\ r.enable_cc /\ r.cc_email # ""
           /\ is_valid_email(r.cc_email)
    THEN <<recipient_email, r.cc_email>>
    ELSE <<recipient_email>>

\* What attaching the CV can do for one recipient: "none" (no CV is set),
\* "ok", "fail" (reading or encoding the file raised).
AttachOutcomes(r) ==
    IF r.cv_path # "" /\ r.cv_path # PyNone THEN {"ok", "fail"} ELSE {"none"}

\* A pass that logs a failed attachment and a failed transmission without
\* counting them.
LoopPassCountingSentOnly(r, attach, send_ok) ==
    LET d == r.emails[r.i + 1]
        call == [to |-> d.recipient_email,
                 rcpts |-> AllRecipients(r, d.recipient_email),
                 subject |-> d.subject, body |-> d.body,
                 attached |-> (attach = "ok"), ok |-> send_ok]
    IN  IF attach = "fail" /\ ~r.is_test
        THEN [r EXCEPT !.progress = r.i + 1, !.i = @ + 1]
        ELSE [r EXCEPT !.n_calls = @ + 1, !.last_call = call,
                       !.sent_count = IF send_ok THEN @ + 1 ELSE @,
                       !.progress = IF r.is_test THEN @ ELSE r.i + 1,
                       !.i = @ + 1]

\* One pass of the recipient loop of QAQA.py:566-593 (F_EMAIL.py:758-791,
\* GEMEME.py:684-717): the locals after the pass.
LoopPass(r, attach, send_ok) ==
    LET d == r.emails[r.i + 1]
        call == [to |-> d.recipient_email,
                 rcpts |-> AllRecipients(r, d.recipient_email),
                 subject |-> d.subject, body |-> d.body,
                 attached |-> (attach = "ok"), ok |-> send_ok]
    IN  IF attach = "fail" /\ ~r.is_test
        THEN [r EXCEPT !.failed_count = @ + 1, !.progress = r.i + 1, !.i = @ + 1]
        ELSE [r EXCEPT !.n_calls = @ + 1, !.last_call = call,
                       !.sent_count = IF send_ok THEN @ + 1 ELSE @,
                       !.failed_count = IF ~send_ok /\ ~r.is_test THEN @ + 1 ELSE @,
                       !.progress = IF r.is_test THEN @ ELSE r.i + 1,
                       !.i = @ + 1]

\* One pass of the loop of internship_email_sender.py:520-559: the whole body
\* is inside one try, only successes are counted.
LoopPassInternship(r, attach, send_ok) ==
    LET d == r.emails[r.i + 1]
        call == [to |-> d.recipient_email, rcpts |-> <<d.recipient_email>>,
                 subject |-> d.subject, body |-> d.body,
                 attached |-> (attach = "ok"), ok |-> send_ok]
    IN  IF attach = "fail"
        THEN [r EXCEPT !.progress = r.i + 1, !.i = @ + 1]
        ELSE [r EXCEPT !.n_calls = @ + 1, !.last_call = call,
                       !.sent_count = IF send_ok THEN @ + 1 ELSE @,
                       !.progress = r.i + 1,
                       !.i = @ + 1]

\* One pass of the loop of email_sent_gemini.py:515-564 over the rows of the
\* table: a row without a valid address is counted as failed and left.
LoopPassGemini(r, attach, send_ok) ==
    LET d == r.emails[r.i + 1]
    IN  IF d.recipient_email = PyNone \/ d.recipient_email = ""
               \/ ~is_valid_email(d.recipient_email)
        THEN [r EXCEPT !.failed_count = @ + 1, !.i = @ + 1]
        ELSE LoopPass(r, attach, send_ok)

\* ---- bulk_email_sender_app.py: the sender thread
\* The variant of bulk_email_sender_app.py keeps its table in csv_headers
\* (column_headers) and csv_data, its selected_columns in column_mappings,
\* email_account / email_password in smtp_email_var / smtp_password_var,
\* pdf_file_path in cv_file_path, the template in email_body and the subject
\* in email_subject_var.  Its send runs in a thread of its own: pc and run are
\* the position and the locals of that thread, and the handlers of the UI run
\* between its steps.
required_fields == <<"First Name", "Last Name", "Company Name", "Role", "Email">>
FieldNames == {required_fields[k] : k \in DOMAIN required_fields}

\* The text of a cell as it is inserted (addresses are plain strings, the
\* other cells are token sequences).
CellText(header, row) == IF header = "Email" THEN <<row[header]>> ELSE row[header]

\* bulk_email_sender_app.py:366-374: the mapped fields replaced in turn
RECURSIVE ReplaceFields(_, _, _)
ReplaceFields(text, row, k) ==
    IF k > Len(required_fields) THEN text
    ELSE LET field == required_fields[k]
             selected_header == column_mappings[field]
         IN  ReplaceFields(
                 IF selected_header # "" /\ InSeq(selected_header, csv_headers)
                 THEN Replace(text, "{{" \o field \o "}}",
                              IF selected_header \in DOMAIN row
                              THEN CellText(selected_header, row) ELSE <<>>)
                 ELSE text,
                 row, k + 1)

\* bulk_email_sender_app.py:377-381: the headers that stand in the template
RECURSIVE ReplaceHeaders(_, _, _)
ReplaceHeaders(text, row, k) ==
    IF k > Len(csv_headers) THEN text
    ELSE ReplaceHeaders(
             IF csv_headers[k] \in DOMAIN row
             THEN Replace(text, "{{" \o csv_headers[k] \o "}}", CellText(csv_headers[k], row))
             ELSE text,
             row, k + 1)

\* The template filled from one row, with the table's headers and mapping.
ContentOfRow(template, row) == ReplaceHeaders(ReplaceFields(template, row, 1), row, 1)

\* generate_email_content(template, row_index), row_index counted from 1: the
\* row is looked up in self.csv_data when the content is generated.
generate_email_content(template, row_index) ==
    IF csv_data = <<>> \/ row_index > Len(csv_data)
    THEN <<"No data available">>
    ELSE ContentOfRow(template, csv_data[row_index])

\* bulk_email_sender_app.py:515: the note of test mode
test_info(recipient_email) ==
    <<"[TEST MODE - Original recipient would have been:", recipient_email, "]">>

\* One pass of the loop of bulk_email_sender_app.py:485-548 over the rows the
\* thread enumerates (r.emails); any exception of the pass counts the row as
\* failed.
LoopPassThread(r, attach, send_ok) ==
    LET row == r.emails[r.i + 1]
        has == r.email_col_index \in DOMAIN row
        recipient_email == IF has THEN row[r.email_col_index] ELSE ""
        email_body_ == generate_email_content(r.template, r.i + 1)
        call == [to |-> IF r.is_test THEN smtp_email_var ELSE recipient_email,
                 rcpts |-> <<IF r.is_test THEN smtp_email_var ELSE recipient_email>>,
                 subject |-> email_subject_var,
                 body |-> IF r.is_test THEN email_body_ \o test_info(recipient_email)
                          ELSE email_body_,
                 attached |-> TRUE, ok |-> send_ok]
    IN  IF ~has \/ ~is_valid_email(recipient_email) \/ attach # "ok"
        THEN [r EXCEPT !.failed_count = @ + 1, !.progress = r.i + 1, !.i = @ + 1]
        ELSE [r EXCEPT !.n_calls = @ + 1, !.last_call = call,
                       !.sent_count = IF send_ok THEN @ + 1 ELSE @,
                       !.failed_count = IF send_ok THEN @ ELSE @ + 1,
                       !.progress = r.i + 1, !.i = @ + 1]

\* ---- email_app.py: the bulk send of the Streamlit page
\* The variant of email_app.py keeps the uploaded table (df) in csv_headers
\* and csv_data, email_column in email_column_var, the token mapping in
\* column_mappings, smtp_user / smtp_pass in smtp_email_var /
\* smtp_password_var, cc_enabled / cc_email in enable_cc_var / cc_email_var
\* and the uploaded attachment in cv_file_path.
NEUTRAL_TOKENS == <<"A_01", "A_02", "A_03", "A_04", "A_05">>

\* re.match(r"[^@]+@[^@]+\.[^@]+", str(recipient_email)): a match at the
\* start of the text
MatchesAddressPattern(s) ==
    LET c == Chars(s)
        n == Len(c)
    IN  /\ s # "" /\ s # PyNone
        /\ \E at \in 2..n : \E dot \in (at + 2)..(n - 1) :
              /\ c[at] = "@"
              /\ c[dot] = "."
              /\ \A k \in 1..(at - 1) : c[k] # "@"
              /\ \A k \in (at + 1)..(dot + 1) : c[k] # "@"

\* render_template(template, data_row, neutral_tokens, column_mappings)
RECURSIVE render_template(_, _, _, _)
render_template(template, data_row, k, mappings) ==
    IF k > Len(NEUTRAL_TOKENS) THEN template
    ELSE LET token == NEUTRAL_TOKENS[k]
             mapped_column == mappings[token]
         IN  render_template(
                 Replace(template, "{{" \o token \o "}}",
                         IF mapped_column # PyNone /\ mapped_column \in DOMAIN data_row
                         THEN data_row[mapped_column] ELSE <<>>),
                 data_row, k + 1, mappings)

\* send_email (email_app.py:59-89): server.send_message(msg) takes the
\* envelope from the To and Cc headers
SendMessageRecipients(to_addr, cc_addr) ==
    IF cc_addr # PyNone /\ cc_addr # "" THEN <<to_addr, cc_addr>> ELSE <<to_addr>>

\* One pass of the loop of email_app.py:292-313 over the rows of the table;
\* send_email turns every exception into a False result.
LoopPassApp(r, attach, send_ok) ==
    LET row == r.emails[r.i + 1]
        recipient_email == RowGet(row, r.email_column)
        final_cc_addr == IF r.enable_cc THEN r.cc_email ELSE PyNone
        call == [to |-> recipient_email,
                 rcpts |-> SendMessageRecipients(recipient_email, final_cc_addr),
                 subject |-> render_template(r.subject_template, row, 1, r.mappings),
                 body |-> render_template(r.body_template, row, 1, r.mappings),
                 attached |-> (attach = "ok"), ok |-> send_ok]
    IN  IF ~MatchesAddressPattern(recipient_email)
        THEN [r EXCEPT !.i = @ + 1]
        ELSE IF attach = "fail"
        THEN [r EXCEPT !.failed_count = @ + 1, !.progress = r.i + 1, !.i = @ + 1]
        ELSE [r EXCEPT !.n_calls = @ + 1, !.last_call = call,
                       !.sent_count = IF send_ok THEN @ + 1 ELSE @,
                       !.failed_count = IF send_ok THEN @ ELSE @ + 1,
                       !.progress = r.i + 1, !.i = @ + 1]

\* The pass of the variant's loop.
Pass(r, attach, send_ok) ==
    CASE variant = "internship" -> LoopPassInternship(r, attach, send_ok)
      [] variant = "email_sent_gemini" -> LoopPassGemini(r, attach, send_ok)
      [] variant = "bulk_email_sender_app" -> LoopPassThread(r, attach, send_ok)
      [] variant = "email_app" -> LoopPassApp(r, attach, send_ok)
      [] OTHER -> LoopPass(r, attach, send_ok)

\* A loop whose pass lets a failed transmission end the run.
SendOneAborting(attach, send_ok) ==
    /\ pc = "loop"
    /\ run.i < Len(run.emails)
    /\ attach \in AttachOutcomes(run)
    /\ IF send_ok \/ attach = "fail"
       THEN /\ run' = Pass(run, attach, send_ok)
            /\ pc' = "loop"
       ELSE /\ run' = Except(run, "SMTPRecipientsRefused")
            /\ pc' = "finally"
    /\ UNCHANGED <<variant, suspended, now, tableVars, profileVars, uiScheduleVars, ledgerVars, timers,
                   checkVars, config_active>>

\* A loop that stays at a recipient whose transmission failed and tries it
\* once more.
SendOneRetrying(attach, send_ok) ==
    /\ pc = "loop"
    /\ run.i < Len(run.emails)
    /\ attach \in AttachOutcomes(run)
    /\ run' = IF ~send_ok /\ attach # "fail" /\ run.n_calls = run.i
              THEN [Pass(run, attach, send_ok) EXCEPT !.i = run.i,
                                                      !.failed_count = run.failed_count]
              ELSE Pass(run, attach, send_ok)
    /\ pc' = "loop"
    /\ UNCHANGED <<variant, suspended, now, tableVars, profileVars, uiScheduleVars, ledgerVars, timers,
                   checkVars, config_active>>

\* The loop body for the next recipient of the send list.
SendOne(attach, send_ok) ==
    /\ pc = "loop"
    /\ run.i < Len(run.emails)
    /\ attach \in AttachOutcomes(run)
    /\ run' = Pass(run, attach, send_ok)
    /\ pc' = "loop"
    /\ UNCHANGED <<variant, suspended, now, tableVars, profileVars, uiScheduleVars, ledgerVars, timers,
                   checkVars, config_active>>

\* A close whose failure is counted as one more failed message.
QuitCountingFailure(ok) ==
    /\ pc = "loop"
    /\ run.i = Len(run.emails)
    /\ run' = IF ok THEN [run EXCEPT !.conn = "closed"]
              ELSE [Except([run EXCEPT !.conn = "broken"], "SMTPServerDisconnected")
                       EXCEPT !.failed_count = @ + 1]
    /\ pc' = "finally"
    /\ UNCHANGED <<variant, suspended, now, tableVars, profileVars, uiScheduleVars, ledgerVars, timers,
                   checkVars, config_active>>

\* server.quit() after the last recipient (QAQA.py:594); when it raises, the
\* generic except clause catches it.
Quit(ok) ==
    /\ pc = "loop"
    /\ run.i = Len(run.emails)
    /\ run' = IF ok THEN [run EXCEPT !.conn = "closed"]
              ELSE Except([run EXCEPT !.conn = "broken"], "SMTPServerDisconnected")
    /\ pc' = "finally"
    /\ UNCHANGED <<variant, suspended, now, tableVars, profileVars, uiScheduleVars, ledgerVars, timers,
                   checkVars, config_active>>

\* The counts of the closing log line (QAQA.py:599, F_EMAIL.py:808); the
\* internship variant reports sent and total only (:563-566).
FinalTally(r) ==
    [total |-> Len(r.emails), sent |-> r.sent_count,
     failed |-> IF r.is_test \/ variant = "internship" THEN NA ELSE r.failed_count]

\* QAQA.py:665-666: after the run of a scheduled campaign its entry is deleted
LedgerAfterRun(ledger, cid) ==
    IF cid \in DOMAIN ledger
    THEN [c \in DOMAIN ledger \ {cid} |-> ledger[c]]
    ELSE ledger

\* The finally clause of _perform_email_sending and the return to the caller:
\* send_emails_process deletes a scheduled campaign's entry and saves the
\* ledger (QAQA.py:664-667).
Finish ==
    /\ pc = "finally"
    /\ IF run.cid # NoId /\ run.cid \in DOMAIN scheduled_campaigns
       THEN /\ scheduled_campaigns' = LedgerAfterRun(scheduled_campaigns, run.cid)
            /\ file' = save_scheduled_campaigns_to_file(scheduled_campaigns')
       ELSE UNCHANGED <<scheduled_campaigns, file>>
    /\ pc' = "idle"
    /\ run' = IdleRun
    /\ UNCHANGED <<variant, suspended, now, tableVars, profileVars, uiScheduleVars, issued, timers,
                   checkVars, config_active>>

\* ------------------------------------------------------- starting a send
\* The configuration checks of send_emails_process (QAQA.py:623-631): the
\* text of the error box, or "ok".
ConfigCheck ==
    CASE csv_data = <<>> -> "No CSV data loaded."
      [] email_column_var = "" \/ email_column_var = "Not Mapped"
             \/ ~InSeq(email_column_var, csv_headers) -> "Email column not selected/invalid."
      [] smtp_email_var = "" \/ smtp_password_var = "" -> "Gmail address or App Password not set."
      [] ~is_valid_email(smtp_email_var) -> "Invalid sender Gmail address format."
      [] email_subject_var = <<>> \/ email_body = <<>> -> "Email subject or body empty."
      [] OTHER -> "ok"

\* schedule_dt_obj <= datetime.datetime.now()   (QAQA.py:661, F_EMAIL.py:881)
InThePast(dt, t) == dt <= t
\* scheduled_dt < now                           (GEMEME.py:806)
InThePastGEMEME(dt, t) == dt < t

\* QAQA.py:653-661: the schedule the fields give:
\* [kind |-> "none" | "invalid" | "past" | "dt", dt |-> tick]
ScheduleFromFields ==
    LET from_ui == ui_schedule_date_var # "" \/ ui_schedule_time_var # ""
        date_to_use == IF from_ui THEN ui_schedule_date_var ELSE profile_schedule_date_var
        time_to_use == IF from_ui THEN ui_schedule_time_var ELSE profile_schedule_time_var
        v == validate_schedule_datetime(date_to_use, time_to_use)
    IN  IF v.kind = "dt" /\ InThePast(v.dt, now) THEN [v EXCEPT !.kind = "past"] ELSE v

\* An entry that records the schedule but not the prepared list.
NewEntryUnprepared(dt, emails) ==
    [scheduled_datetime_str |-> FmtDateTimeS(dt),
     emails_to_send_list |-> <<>>,
     sender_email |-> smtp_email_var, sender_password |-> smtp_password_var,
     cv_path |-> cv_file_path, status |-> "pending",
     profile_name_at_schedule |-> active_profile_name]

\* QAQA.py:670-678: the ledger entry of a newly scheduled campaign
NewEntry(dt, emails) ==
    [scheduled_datetime_str |-> FmtDateTimeS(dt),
     emails_to_send_list |-> emails,
     sender_email |-> smtp_email_var, sender_password |-> smtp_password_var,
     cv_path |-> cv_file_path, status |-> "pending",
     profile_name_at_schedule |-> active_profile_name]

\* str(uuid.uuid4()): an id never handed out before
NewId(n) == "campaign-" \o ToString(n + 1)

\* QAQA.py:669-679: the ledger with the new campaign registered
Register(ledger, cid, entry) ==
    [c \in DOMAIN ledger \cup {cid} |-> IF c = cid THEN entry ELSE ledger[c]]

\* send_emails_process() of QAQA.py, started by the Send button.
\* confirm: the answer to "Send N emails now?".
send_emails_process_QAQA(confirm) ==
    LET emails == build_send_list(csv_data, email_column_var, column_mappings,
                                  email_subject_var, email_body)
        sched == ScheduleFromFields
        stay == UNCHANGED <<ledgerVars, pc, run>>
    IN
    /\ UiFree
    /\ variant \in LedgerVariants
    /\ CASE ConfigCheck # "ok" -> dialog' = ConfigCheck /\ stay
         [] ConfigCheck = "ok" /\ emails = <<>> ->
               dialog' = "No valid recipient emails found in CSV data." /\ stay
         [] ConfigCheck = "ok" /\ emails # <<>> /\ sched.kind = "invalid" ->
               dialog' = "Invalid Schedule Date/Time format." /\ stay
         [] ConfigCheck = "ok" /\ emails # <<>> /\ sched.kind = "past" ->
               dialog' = "Schedule Error" /\ stay
         [] ConfigCheck = "ok" /\ emails # <<>> /\ sched.kind = "dt" ->
               /\ issued < MaxCampaigns
               /\ scheduled_campaigns' =
                     Register(scheduled_campaigns, NewId(issued), NewEntry(sched.dt, emails))
               /\ file' = save_scheduled_campaigns_to_file(scheduled_campaigns')
               /\ issued' = issued + 1
               /\ dialog' = "Scheduled"
               /\ UNCHANGED <<pc, run>>
         [] OTHER ->
               /\ UNCHANGED <<ledgerVars, dialog>>
               /\ IF confirm
                  THEN /\ run' = NewRun(emails, FALSE, NoId, NoEntry, NoDt)
                       /\ pc' = "connect"
                  ELSE UNCHANGED <<pc, run>>
    /\ UNCHANGED <<variant, suspended, now, tableVars, profileVars, uiScheduleVars, timers,
                   queue, startup_due, startup_pending, config_active>>

\* send_emails_process() of F_EMAIL.py:817-895 and GEMEME.py:743-822.  With
\* a preferred send time the handler computes the delay from the clock it
\* read and then asks "Schedule sending ...?"; the prompt stays open (pc =
\* "confirm_schedule") until ConfirmSchedule.  confirm: the answer to the
\* yes/no prompts the handler opens before that point ("Send N emails
\* now?", GEMEME's "CV file not found or not set. Send without CV?").
send_emails_process_timer(confirm) ==
    LET emails == build_send_list(csv_data, email_column_var, column_mappings,
                                  email_subject_var, email_body)
        asks_cv == variant = "GEMEME" /\ cv_file_path = ""
        send_time_str == preferred_send_time_var
        scheduled_dt == ReplaceHM(now, send_time_str)
        past == IF variant = "GEMEME" THEN InThePastGEMEME(scheduled_dt, now)
                ELSE InThePast(scheduled_dt, now)
        stay == UNCHANGED <<pc, run>>
    IN
    /\ UiFree
    /\ variant \in TimerVariants
    /\ CASE ConfigCheck # "ok" -> dialog' = ConfigCheck /\ stay
         [] ConfigCheck = "ok" /\ asks_cv /\ ~confirm -> dialog' = dialog /\ stay
         [] OTHER ->
            CASE emails = <<>> ->
                    dialog' = "No valid recipient emails found in CSV data." /\ stay
              [] emails # <<>> /\ ~validate_send_time_format(send_time_str) ->
                    dialog' = "Invalid 'Preferred Send Time' format." /\ stay
              [] emails # <<>> /\ validate_send_time_format(send_time_str)
                     /\ send_time_str # "" /\ past ->
                    dialog' = "Schedule Error" /\ stay
              [] emails # <<>> /\ validate_send_time_format(send_time_str)
                     /\ send_time_str # "" /\ ~past ->
                    /\ dialog' = "Confirm Schedule"
                    /\ pc' = "confirm_schedule"
                    /\ run' = [IdleRun EXCEPT !.emails = emails, !.target = scheduled_dt,
                                              !.delay = scheduled_dt - now]
              [] OTHER ->
                    /\ dialog' = dialog
                    /\ IF confirm
                       THEN /\ run' = NewRun(emails, FALSE, NoId, NoEntry, NoDt)
                            /\ pc' = "connect"
                       ELSE UNCHANGED <<pc, run>>
    /\ UNCHANGED <<variant, suspended, now, tableVars, profileVars, uiScheduleVars, ledgerVars, timers,
                   queue, startup_due, startup_pending, config_active>>

\* The answer to "Schedule sending ...?" (F_EMAIL.py:886-890): on yes
\* root.after(delay_ms, ...) arms a timer that fires delay_ms after this
\* moment.
ConfirmSchedule(yes) ==
    /\ pc = "confirm_schedule"
    /\ IF yes
       THEN /\ Cardinality(timers) < MaxCampaigns
            /\ timers' = timers \cup {[fire_at |-> now + run.delay, target |-> run.target,
                                       emails |-> run.emails]}
       ELSE timers' = timers
    /\ pc' = "idle"
    /\ run' = IdleRun
    /\ dialog' = "none"
    /\ UNCHANGED <<variant, suspended, now, tableVars, profileVars, uiScheduleVars, ledgerVars,
                   queue, startup_due, startup_pending, config_active>>

\* The callback of root.after(delay_ms, lambda: self._perform_email_sending(...))
TimerFires(tm) ==
    /\ UiFree
    /\ variant \in TimerVariants
    /\ tm \in timers
    /\ now >= tm.fire_at
    /\ timers' = timers \ {tm}
    /\ run' = NewRun(tm.emails, FALSE, NoId, NoEntry, tm.target)
    /\ pc' = "connect"
    /\ UNCHANGED <<variant, suspended, now, tableVars, profileVars, uiScheduleVars, ledgerVars,
                   checkVars, config_active>>

\* send_emails of internship_email_sender.py:444-470 and the head of
\* send_emails_task (:472-510), which runs on a worker thread.
send_emails_internship ==
    LET emails == build_send_list(csv_data, email_column_var, column_mappings,
                                  email_subject_var, email_body)
    IN
    /\ UiFree
    /\ variant = "internship"
    /\ IF ConfigCheck # "ok"
       THEN dialog' = ConfigCheck /\ UNCHANGED <<pc, run>>
       ELSE IF emails = <<>>
       THEN UNCHANGED <<dialog, pc, run>>
       ELSE /\ dialog' = dialog
            /\ run' = [NewRun(emails, FALSE, NoId, NoEntry, NoDt) EXCEPT !.enable_cc = FALSE]
            /\ pc' = "connect"
    /\ UNCHANGED <<variant, suspended, now, tableVars, profileVars, uiScheduleVars, ledgerVars, timers,
                   queue, startup_due, startup_pending, config_active>>

\* The checks of send_emails_process of email_sent_gemini.py:483-499: the
\* text of the error box, or "ok".
ConfigCheckGemini ==
    CASE csv_data = <<>> -> "No CSV data loaded."
      [] cv_file_path = "" \/ cv_file_path = PyNone -> "CV file not selected or not found."
      [] email_column_var = "" \/ email_column_var = "Not Mapped"
             \/ ~InSeq(email_column_var, csv_headers) -> "Email column not selected or invalid."
      [] smtp_email_var = "" \/ smtp_password_var = "" ->
             "Gmail address or App Password not provided."
      [] ~is_valid_email(smtp_email_var) -> "Invalid sender Gmail address format."
      [] email_subject_var = <<>> \/ email_body = <<>> -> "Email subject or body cannot be empty."
      [] OTHER -> "ok"

\* email_sent_gemini.py:515-535: what the loop reads for each row of the
\* table, valid address or not.
RowsAsRead(rows, email_col, mappings, subject, body) ==
    [i \in 1..Len(rows) |->
        [recipient_email |-> RowGet(rows[i], email_col),
         subject |-> Render(subject, mappings, rows[i]),
         body |-> Render(body, mappings, rows[i]),
         row_identifier |-> i]]

\* send_emails_process of email_sent_gemini.py:481-510: the checks, the
\* "Confirm Send" prompt, and the start of the loop over the rows.
send_emails_process_gemini(confirm) ==
    /\ UiFree
    /\ variant = "email_sent_gemini"
    /\ IF ConfigCheckGemini # "ok"
       THEN dialog' = ConfigCheckGemini /\ UNCHANGED <<pc, run>>
       ELSE IF ~confirm
       THEN UNCHANGED <<dialog, pc, run>>
       ELSE /\ dialog' = dialog
            /\ run' = [NewRun(RowsAsRead(csv_data, email_column_var, column_mappings,
                                         email_subject_var, email_body),
                              FALSE, NoId, NoEntry, NoDt) EXCEPT !.enable_cc = FALSE]
            /\ pc' = "connect"
    /\ UNCHANGED <<variant, suspended, now, tableVars, profileVars, uiScheduleVars, ledgerVars, timers,
                   queue, startup_due, startup_pending, config_active>>

\* -------------------------------------------------------- the due-check
\* A due test that looks at the status only.
IsDueAnyTime(entry, t) == entry.status = "pending"

\* QAQA.py:881-889: the pending campaigns whose time has come, in the
\* ledger's order, each with its entry.
IsDue(entry, t) ==
    /\ entry.status = "pending"
    /\ ParseDateTimeS(entry.scheduled_datetime_str) # NoDt
    /\ t >= ParseDateTimeS(entry.scheduled_datetime_str)

RECURSIVE DueFrom(_, _, _)
DueFrom(ledger, t, n) ==
    IF n > issued THEN <<>>
    ELSE LET cid == NewId(n - 1)
         IN  (IF cid \in DOMAIN ledger /\ IsDue(ledger[cid], t)
              THEN << [cid |-> cid, cdata |-> ledger[cid]] >> ELSE <<>>)
                 \o DueFrom(ledger, t, n + 1)
campaigns_to_send_now(ledger, t) == DueFrom(ledger, t, 1)

\* QAQA.py:887-889: a pending entry whose date text does not parse is marked
MarkInvalid(ledger) ==
    [c \in DOMAIN ledger |->
        IF ledger[c].status = "pending"
               /\ ParseDateTimeS(ledger[c].scheduled_datetime_str) = NoDt
        THEN [ledger[c] EXCEPT !.status = "error_invalid_date"]
        ELSE ledger[c]]

\* check_for_pending_scheduled_jobs(), fired once 2000 ms after start-up: it
\* collects the due campaigns and asks "Send now?" before sending; the
\* prompt is open while startup_due is not empty.
check_for_pending_scheduled_jobs ==
    /\ UiFree
    /\ variant \in LedgerVariants
    /\ startup_pending
    /\ startup_pending' = FALSE
    /\ scheduled_campaigns' = MarkInvalid(scheduled_campaigns)
    /\ startup_due' = campaigns_to_send_now(scheduled_campaigns, now)
    /\ UNCHANGED <<variant, suspended, now, tableVars, profileVars, uiScheduleVars, file, issued, timers,
                   pc, run, queue, dialog, config_active>>

\* The answer to "Scheduled campaign(s) due ... Send now?" (QAQA.py:893-897)
AnswerPending(yes) ==
    /\ startup_due # <<>>
    /\ suspended = <<>>
    /\ pc = "idle"
    /\ queue = <<>>
    /\ dialog = "none"
    /\ queue' = IF yes THEN startup_due ELSE <<>>
    /\ startup_due' = <<>>
    /\ UNCHANGED <<variant, suspended, now, tableVars, profileVars, uiScheduleVars, ledgerVars, timers,
                   pc, run, dialog, startup_pending, config_active>>

\* periodic_schedule_check(), fired every 60000 ms: the silent due-check.  A
\* Tk timer also fires while the start-up prompt is open.
periodic_schedule_check ==
    /\ variant \in LedgerVariants
    /\ ~startup_pending
    /\ pc = "idle"
    /\ queue = <<>>
    /\ dialog = "none"
    /\ scheduled_campaigns' = MarkInvalid(scheduled_campaigns)
    /\ queue' = campaigns_to_send_now(scheduled_campaigns, now)
    /\ queue' # <<>>
    /\ UNCHANGED <<variant, suspended, now, tableVars, profileVars, uiScheduleVars, file, issued, timers,
                   pc, run, startup_due, dialog, startup_pending, config_active>>

\* send_emails_process(campaign_id_to_send, scheduled_campaign_data) for the
\* next campaign of the due-check's loop (QAQA.py:609-621, 653-667): the
\* schedule fields are validated on this path too (:653-661), and a
\* rejected call returns before _perform_email_sending and the deletion.
send_emails_process_scheduled ==
    LET job == Head(queue)
        sched == ScheduleFromFields
    IN
    /\ pc = "idle"
    /\ queue # <<>>
    /\ dialog = "none"
    /\ queue' = Tail(queue)
    /\ CASE sched.kind = "invalid" ->
              /\ dialog' = "Invalid Schedule Date/Time format."
              /\ UNCHANGED <<pc, run>>
         [] sched.kind = "past" ->
              /\ dialog' = "Schedule Error"
              /\ UNCHANGED <<pc, run>>
         [] OTHER ->
              /\ dialog' = dialog
              /\ run' = NewRun(job.cdata.emails_to_send_list, FALSE, job.cid, job.cdata,
                               ParseDateTimeS(job.cdata.scheduled_datetime_str))
              /\ pc' = "connect"
    /\ UNCHANGED <<variant, suspended, now, tableVars, profileVars, uiScheduleVars, ledgerVars, timers,
                   startup_due, startup_pending, config_active>>

\* ------------------------------------------- timers inside an error box
\* The except clauses of _perform_email_sending (QAQA.py:595-597,
\* F_EMAIL.py:796-806) open messagebox.showerror before the finally clause.
\* The box runs the event loop until it is dismissed, and root.after
\* callbacks fire in it: the handler that opened the box waits, suspended,
\* while the callback runs to its end.  internship_email_sender.py only
\* logs the error.
ErrorBoxOpen == pc = "finally" /\ run.error # "none" /\ variant # "internship"

\* The waiting handler: its position, its run and the rest of its loop.
Frame == [pc |-> pc, run |-> run, queue |-> queue]

\* periodic_schedule_check() fired inside the error box of a run.
periodic_schedule_check_in_box ==
    /\ variant \in LedgerVariants
    /\ ErrorBoxOpen
    /\ Len(suspended) < MaxNesting
    /\ campaigns_to_send_now(scheduled_campaigns, now) # <<>>
    /\ suspended' = Append(suspended, Frame)
    /\ scheduled_campaigns' = MarkInvalid(scheduled_campaigns)
    /\ queue' = campaigns_to_send_now(scheduled_campaigns, now)
    /\ pc' = "idle"
    /\ run' = IdleRun
    /\ UNCHANGED <<variant, now, tableVars, profileVars, uiScheduleVars, file, issued, timers,
                   startup_due, dialog, startup_pending, config_active>>

\* The root.after callback of a scheduled send fired inside the error box
\* of a run.
TimerFiresInBox(tm) ==
    /\ variant \in TimerVariants
    /\ ErrorBoxOpen
    /\ Len(suspended) < MaxNesting
    /\ tm \in timers
    /\ now >= tm.fire_at
    /\ suspended' = Append(suspended, Frame)
    /\ timers' = timers \ {tm}
    /\ run' = NewRun(tm.emails, FALSE, NoId, NoEntry, tm.target)
    /\ pc' = "connect"
    /\ queue' = <<>>
    /\ UNCHANGED <<variant, now, tableVars, profileVars, uiScheduleVars, ledgerVars,
                   startup_due, dialog, startup_pending, config_active>>

\* The callback returns: the event loop of the box goes on, and the box's
\* handler is again the innermost one.
CallbackReturns ==
    LET outer == suspended[Len(suspended)] IN
    /\ suspended # <<>>
    /\ pc = "idle"
    /\ queue = <<>>
    /\ dialog = "none"
    /\ pc' = outer.pc
    /\ run' = outer.run
    /\ queue' = outer.queue
    /\ suspended' = SubSeq(suspended, 1, Len(suspended) - 1)
    /\ UNCHANGED <<variant, now, tableVars, profileVars, uiScheduleVars, ledgerVars, timers,
                   startup_due, dialog, startup_pending, config_active>>

\* ---------------------------------------------------------- stop and start
\* on_closing (QAQA.py:403-406) saves the configuration and the ledger; the
\* next start runs __init__.
CloseAndStart ==
    /\ UiFree
    /\ variant # "internship"
    /\ config_active' = active_profile_name
    /\ file' = IF variant \in LedgerVariants
               THEN save_scheduled_campaigns_to_file(scheduled_campaigns) ELSE file
    /\ Boot(file', config_active')
    /\ UNCHANGED <<variant, now, issued>>

\* The process ends without on_closing (killed, crashed, power lost); the
\* next start runs __init__ on what the disk holds.
KillAndStart ==
    /\ variant # "internship"
    /\ Boot(file, config_active)
    /\ UNCHANGED <<variant, now, issued, file, config_active>>

\* The steps of a dispatch run, from the connection to the return.
RunStep ==
    \/ \E outcome \in ConnectOutcomes : Connect(outcome)
    \/ \E outcome \in LoginOutcomes : Login(outcome)
    \/ \E attach \in {"none", "ok", "fail"} : \E send_ok \in BOOLEAN : SendOne(attach, send_ok)
    \/ \E ok \in BOOLEAN : Quit(ok)
    \/ Finish

\* Every step but the loss of the process.
Steps ==
    \/ Tick
    \/ \E table \in Tables : load_csv_files(table)
    \/ \E p \in DOMAIN Profiles : set_and_load_profile(p)
    \/ \E texts \in ScheduleTexts : EditSchedule(texts)
    \/ \E text \in TimeTexts : EditPreferredSendTime(text)
    \/ Dismiss
    \/ \E confirm \in BOOLEAN : send_emails_process_QAQA(confirm)
    \/ \E confirm \in BOOLEAN : send_emails_process_timer(confirm)
    \/ \E yes \in BOOLEAN : ConfirmSchedule(yes)
    \/ \E tm \in timers : TimerFires(tm)
    \/ send_emails_internship
    \/ \E confirm \in BOOLEAN : send_emails_process_gemini(confirm)
    \/ check_for_pending_scheduled_jobs
    \/ \E yes \in BOOLEAN : AnswerPending(yes)
    \/ periodic_schedule_check
    \/ send_emails_process_scheduled
    \/ RunStep
    \/ CloseAndStart

Next == Steps \/ KillAndStart

Spec == Init /\ [][Next]_vars

\* The steps of a timer callback that fires while a run waits in its error
\* box.
BoxSteps ==
    \/ periodic_schedule_check_in_box
    \/ \E tm \in timers : TimerFiresInBox(tm)
    \/ CallbackReturns

\* The program with the event loop of the error boxes.
BoxSpec == Init /\ [][Next \/ BoxSteps]_vars

\* A process that is not lost while a run is active, with a transport whose
\* every call returns or raises: a started run takes its next step.
LiveSpec == Init /\ [][Steps]_vars /\ WF_vars(RunStep)

\* ------------------------------------------------------------------ claims
\* The failures of opening the connection and of authenticating.
ConnectFailures == ConnectOutcomes \ {"ok"}
LoginFailures == LoginOutcomes \ {"ok"}

\* C1: a transport failure for one recipient never aborts the run.  While
\* the loop runs no exception has ended it; a run whose login succeeded ends
\* only after all N recipients were processed and the closing step was
\* taken; and a run that is in its loop does reach that end.
C1_FailureNeverAborts ==
    /\ [](pc = "loop" => run.error = "none" /\ run.i <= Len(run.emails))
    /\ []((pc = "finally" /\ run.error \notin ConnectFailures \cup LoginFailures)
            => (run.i = Len(run.emails) /\ run.conn \in {"closed", "broken"}))
    /\ ((pc = "loop") ~> (pc = "finally" /\ run.i = Len(run.emails)))

\* C1 witness: a run is at its end, a transmission failed on the way and a
\* later recipient was still sent.
C1_Witness ==
    /\ pc = "finally"
    /\ Len(run.emails) >= 2
    /\ run.i = Len(run.emails)
    /\ run.n_calls > run.sent_count
    /\ run.last_call.ok

\* C2: when opening the connection or authenticating fails, the run ends
\* there: no recipient is processed and server.sendmail is never called.
C2_NoSendAfterConnectFailure ==
    run.error \in ConnectFailures \cup LoginFailures
        => (pc = "finally" /\ run.i = 0 /\ run.n_calls = 0 /\ run.sent_count = 0)

\* C2 witness: a run over a non-empty list ended by a rejected credential.
C2_Witness ==
    /\ pc = "finally"
    /\ run.error \in LoginFailures
    /\ run.emails # <<>>

\* C3: after a failed connection or authentication of a non-test campaign
\* of N recipients the closing tally is total = N, sent = 0, failed = N.
C3_AllReportedFailed ==
    (pc = "finally" /\ variant # "internship" /\ ~run.is_test
         /\ run.error \in ConnectFailures \cup LoginFailures)
        => FinalTally(run) = [total |-> Len(run.emails), sent |-> 0,
                              failed |-> Len(run.emails)]

\* A run of _perform_email_sending is between its start and its return.
RunActive == pc \in {"connect", "login", "loop", "finally"}

\* C4: every due campaign the due-check collected is handed to a dispatch
\* run, whatever the schedule fields and the profile hold, and when that run
\* has returned its entry is no longer in the ledger.
C4_DueEntryDispatchedAndRemoved ==
    [][ /\ send_emails_process_scheduled
            => (pc' = "connect" /\ run'.cid = Head(queue).cid
                    /\ run'.emails = Head(queue).cdata.emails_to_send_list)
        /\ (Finish /\ run.cid # NoId) => run.cid \notin DOMAIN scheduled_campaigns'
      ]_vars

\* C5: a deferred campaign is never dispatched before its target: a run for
\* a ledger entry exists only for an entry that was pending and whose target
\* the clock has reached, and a run a timer started only at or after the
\* time the timer was set for.
C5_NeverBeforeTarget ==
    /\ (RunActive /\ run.cid # NoId)
          => /\ run.cdata.status = "pending"
             /\ ParseDateTimeS(run.cdata.scheduled_datetime_str) # NoDt
             /\ now >= ParseDateTimeS(run.cdata.scheduled_datetime_str)
    /\ (RunActive /\ run.target # NoDt) => now >= run.target

\* C5 witness: the run for a ledger entry is starting.
C5_Witness == pc = "connect" /\ run.cid # NoId /\ run.target # NoDt

\* The Send button is pressed (QAQA.py, F_EMAIL.py, GEMEME.py).
SendPressed ==
    \/ \E confirm \in BOOLEAN : send_emails_process_QAQA(confirm)
    \/ \E confirm \in BOOLEAN : send_emails_process_timer(confirm)

\* The send list the Send button would build now.
CurrentSendList ==
    build_send_list(csv_data, email_column_var, column_mappings, email_subject_var, email_body)

\* The datetime a deferred send is requested for: NoDt when none is.
RequestedDt ==
    IF variant \in LedgerVariants
    THEN (IF ScheduleFromFields.kind \in {"dt", "past"} THEN ScheduleFromFields.dt ELSE NoDt)
    ELSE IF variant \in TimerVariants /\ preferred_send_time_var # ""
              /\ validate_send_time_format(preferred_send_time_var)
    THEN ReplaceHM(now, preferred_send_time_var)
    ELSE NoDt

\* C6: a send requested for a datetime in the past or equal to now is
\* rejected with the scheduling error; ledger and timers stay as they were,
\* no run starts.
C6_PastScheduleRejected ==
    [][ (/\ SendPressed
         /\ ConfigCheck = "ok"
         /\ CurrentSendList # <<>>
         /\ RequestedDt # NoDt
         /\ RequestedDt <= now)
            => (/\ dialog' = "Schedule Error"
                /\ UNCHANGED <<scheduled_campaigns, file, timers, pc, run>>)
      ]_vars

\* C7: with a valid future target, starting a bulk send adds exactly one
\* entry to the ledger: it is pending, holds the prepared send list and the
\* target, the other entries are as they were, and no run starts.
C7_FutureScheduleRegistersOneEntry ==
    [][ (/\ \E confirm \in BOOLEAN : send_emails_process_QAQA(confirm)
         /\ ConfigCheck = "ok"
         /\ CurrentSendList # <<>>
         /\ RequestedDt # NoDt
         /\ RequestedDt > now)
            => (/\ pc' = "idle"
                /\ run' = IdleRun
                /\ \E cid \in DOMAIN scheduled_campaigns' \ DOMAIN scheduled_campaigns :
                      /\ DOMAIN scheduled_campaigns' = DOMAIN scheduled_campaigns \cup {cid}
                      /\ scheduled_campaigns'[cid].status = "pending"
                      /\ scheduled_campaigns'[cid].emails_to_send_list = CurrentSendList
                      /\ ParseDateTimeS(scheduled_campaigns'[cid].scheduled_datetime_str)
                             = RequestedDt
                /\ \A c \in DOMAIN scheduled_campaigns :
                      scheduled_campaigns'[c] = scheduled_campaigns[c])
      ]_vars

\* C7 witness: the confirmation of a registration is on screen, the ledger
\* holds a pending entry with a non-empty list and nothing runs.
C7_Witness ==
    /\ dialog = "Scheduled"
    /\ pc = "idle"
    /\ \E cid \in DOMAIN scheduled_campaigns :
          /\ scheduled_campaigns[cid].status = "pending"
          /\ scheduled_campaigns[cid].emails_to_send_list # <<>>

\* C8: when the run for a due entry failed to connect or to authenticate,
\* the entry is still in the ledger after the run has returned.
C8_KeptAfterFailedRun ==
    [][ (/\ Finish
         /\ run.cid \in DOMAIN scheduled_campaigns
         /\ run.error \in ConnectFailures \cup LoginFailures)
            => run.cid \in DOMAIN scheduled_campaigns'
      ]_vars

RunSuspended ==
    \E k \in DOMAIN suspended : suspended[k].pc \in {"connect", "login", "loop", "finally"}

CcEnabled ==
    variant \in LedgerVariants /\ enable_cc_var /\ is_valid_email(cc_email_var)

HasValidEmail(d) ==
    /\ d.recipient_email # PyNone
    /\ d.recipient_email # ""
    /\ is_valid_email(d.recipient_email)

\* What a run goes through holds rows with a valid address only, and the
\* run's counts stay within it.
OnlyValidRowsDispatched ==
    RunActive =>
        /\ \A k \in DOMAIN run.emails : HasValidEmail(run.emails[k])
        /\ run.sent_count + run.failed_count <= Len(run.emails)

\* A pass of the loop that raises failed_count is for a recipient with a
\* valid address whose attachment failed (no call of the transport) or whose
\* transmission failed.
FailedCountsFailures ==
    (pc = "loop" /\ pc' = "loop" /\ run'.failed_count > run.failed_count) =>
        /\ HasValidEmail(run.emails[run.i + 1])
        /\ run'.failed_count = run.failed_count + 1
        /\ run'.n_calls = run.n_calls \/ ~run'.last_call.ok

\* C13: a row whose email cell is missing or fails the syntax check is out
\* of what a run goes through before the run begins, and is never counted
\* in failed_count; failed_count counts only recipients of the send list
\* whose attachment or transmission failed.
C13_SkippedNeverCountedFailed ==
    [][OnlyValidRowsDispatched /\ FailedCountsFailures]_vars

\* ------------------------------------------------ one send, for any table
\* A session with a table loaded: the start-up check is over, the schedule
\* fields are blank, nothing is scheduled, no handler runs.
Loaded(headers, table, email_col, mappings, subject, body, sender, password) ==
    /\ now = 0
    /\ csv_headers = headers
    /\ csv_data = table
    /\ email_column_var = email_col
    /\ column_mappings = mappings
    /\ email_subject_var = subject
    /\ email_body = body
    /\ active_profile_name = DEFAULT_PROFILE_NAME
    /\ smtp_email_var = sender
    /\ smtp_password_var = password
    /\ cv_file_path = Profiles[DEFAULT_PROFILE_NAME].cv_file_path
    /\ enable_cc_var = (variant \in LedgerVariants /\ Profiles[DEFAULT_PROFILE_NAME].enable_cc)
    /\ cc_email_var =
          IF variant \in LedgerVariants THEN Profiles[DEFAULT_PROFILE_NAME].cc_email ELSE ""
    /\ profile_schedule_date_var = ""
    /\ profile_schedule_time_var = ""
    /\ ui_schedule_date_var = ""
    /\ ui_schedule_time_var = ""
    /\ preferred_send_time_var = ""
    /\ scheduled_campaigns = <<>>
    /\ file = NoFile
    /\ issued = 0
    /\ timers = {}
    /\ pc = "idle"
    /\ run = IdleRun
    /\ queue = <<>>
    /\ startup_due = <<>>
    /\ dialog = "none"
    /\ startup_pending = FALSE
    /\ suspended = <<>>
    /\ config_active = DEFAULT_PROFILE_NAME

\* The mappings the profile's saved mappings give on the headers (QAQA.py:
\* 471-484).
MappingsOn(headers) ==
    [key \in PlaceholderKeys |-> Dropdown(headers, SavedMappings[key])]

\* The rows a table can hold: the rows of FullTable, a row with an empty
\* email cell and a short row (csv.DictReader gives None for its email).
RowKinds ==
    {FullTable(k) : k \in 1..4}
        \cup {Row("", <<"Eve">>, <<>>), Row(PyNone, <<"Flo">>, <<"Fab">>)}
ListTables == UNION {[1..n -> RowKinds] : n \in 0..MaxRows}

\* The variants that build a send list before the run.
ListVariants == ProfileVariants \cup {"internship"}

InitList ==
    /\ variant \in ListVariants
    /\ \E table \in ListTables :
          Loaded(Headers, table, "Email", MappingsOn(Headers), SubjectTemplate, BodyTemplate,
                 Profiles[DEFAULT_PROFILE_NAME].smtp_email,
                 Profiles[DEFAULT_PROFILE_NAME].smtp_password)

\* The Send button, and the box it may end with.
ListNext ==
    \/ \E confirm \in BOOLEAN : send_emails_process_QAQA(confirm)
    \/ \E confirm \in BOOLEAN : send_emails_process_timer(confirm)
    \/ send_emails_internship
    \/ Dismiss

ListSpec == InitList /\ [][ListNext]_vars

\* The rows of the table with a usable address, by row number.
ValidRows(rows, email_col) ==
    {i \in DOMAIN rows :
        LET e == RowGet(rows[i], email_col)
        IN  e # PyNone /\ e # "" /\ is_valid_email(e)}

\* C14: the send list built from a table is exactly the sequence of the rows
\* with a valid email, in row order, one entry per row: the entries' row
\* numbers increase strictly, every entry carries the address of its row,
\* and every valid row has its entry (two rows with one address give two
\* entries).
C14_ListIsValidRowsInOrder ==
    pc = "connect" =>
        /\ \A k \in DOMAIN run.emails :
              /\ run.emails[k].row_identifier \in ValidRows(csv_data, email_column_var)
              /\ run.emails[k].recipient_email =
                    RowGet(csv_data[run.emails[k].row_identifier], email_column_var)
        /\ \A j, k \in DOMAIN run.emails :
              j < k => run.emails[j].row_identifier < run.emails[k].row_identifier
        /\ Len(run.emails) = Cardinality(ValidRows(csv_data, email_column_var))

C14_Witness ==
    /\ pc = "connect"
    /\ Len(run.emails) < Len(csv_data)
    /\ \E j, k \in DOMAIN run.emails :
          /\ j < k
          /\ run.emails[j].recipient_email = run.emails[k].recipient_email

\* --------------------------------------------- a send, for any settings
\* The user types into the entries of the settings and the template
\* (QAQA.py:322, 357-358; the same widgets in F_EMAIL.py, GEMEME.py and
\* email_sent_gemini.py) or picks the email column in its dropdown.
SenderTexts == {Profiles[DEFAULT_PROFILE_NAME].smtp_email, ""}
PasswordTexts == {Profiles[DEFAULT_PROFILE_NAME].smtp_password, ""}
SubjectTexts == {SubjectTemplate, <<>>}
BodyTexts == {BodyTemplate, <<>>}

EditSender(text) ==
    /\ UiFree
    /\ smtp_email_var # text
    /\ smtp_email_var' = text
    /\ UNCHANGED <<variant, suspended, now, tableVars,
                   active_profile_name, smtp_password_var, cv_file_path, enable_cc_var,
                   cc_email_var, profile_schedule_date_var, profile_schedule_time_var,
                   preferred_send_time_var, uiScheduleVars, ledgerVars, timers, pc, run,
                   checkVars, config_active>>

EditPassword(text) ==
    /\ UiFree
    /\ smtp_password_var # text
    /\ smtp_password_var' = text
    /\ UNCHANGED <<variant, suspended, now, tableVars,
                   active_profile_name, smtp_email_var, cv_file_path, enable_cc_var,
                   cc_email_var, profile_schedule_date_var, profile_schedule_time_var,
                   preferred_send_time_var, uiScheduleVars, ledgerVars, timers, pc, run,
                   checkVars, config_active>>

EditSubject(text) ==
    /\ UiFree
    /\ email_subject_var # text
    /\ email_subject_var' = text
    /\ UNCHANGED <<variant, suspended, now, csv_headers, csv_data, email_column_var,
                   column_mappings, email_body, profileVars, uiScheduleVars,
                   ledgerVars, timers, pc, run, checkVars, config_active>>

EditBody(text) ==
    /\ UiFree
    /\ email_body # text
    /\ email_body' = text
    /\ UNCHANGED <<variant, suspended, now, csv_headers, csv_data, email_column_var,
                   column_mappings, email_subject_var, profileVars,
                   uiScheduleVars, ledgerVars, timers, pc, run, checkVars, config_active>>

\* The dropdown offers "Not Mapped" and the headers (QAQA.py:471-484).
SelectEmailColumn(col) ==
    /\ UiFree
    /\ col = "Not Mapped" \/ InSeq(col, csv_headers)
    /\ email_column_var # col
    /\ email_column_var' = col
    /\ UNCHANGED <<variant, suspended, now, csv_headers, csv_data, column_mappings,
                   email_subject_var, email_body, profileVars, uiScheduleVars, ledgerVars,
                   timers, pc, run, checkVars, config_active>>

\* The variants whose Send button runs the checks of QAQA.py:623-631.
ConfigVariants == ProfileVariants \cup {"email_sent_gemini"}

InitConfig == Init /\ variant \in ConfigVariants

\* The sessions up to the start of a run: the settings are edited, sends are
\* started at once or for later, the timers and the due-checks fire.
ConfigNext ==
    \/ Tick
    \/ \E table \in Tables : load_csv_files(table)
    \/ \E text \in SenderTexts : EditSender(text)
    \/ \E text \in PasswordTexts : EditPassword(text)
    \/ \E text \in SubjectTexts : EditSubject(text)
    \/ \E text \in BodyTexts : EditBody(text)
    \/ \E col \in {"Email", "Not Mapped"} : SelectEmailColumn(col)
    \/ \E texts \in ScheduleTexts : EditSchedule(texts)
    \/ \E text \in TimeTexts : EditPreferredSendTime(text)
    \/ Dismiss
    \/ \E confirm \in BOOLEAN : send_emails_process_QAQA(confirm)
    \/ \E confirm \in BOOLEAN : send_emails_process_timer(confirm)
    \/ \E confirm \in BOOLEAN : send_emails_process_gemini(confirm)
    \/ \E yes \in BOOLEAN : ConfirmSchedule(yes)
    \/ \E tm \in timers : TimerFires(tm)
    \/ check_for_pending_scheduled_jobs
    \/ periodic_schedule_check
    \/ send_emails_process_scheduled

ConfigSpec == InitConfig /\ [][ConfigNext]_vars

\* A configuration error: the email column is unset, "Not Mapped" or not a
\* header of the loaded table, the subject or the body is empty, or the
\* sender address or the credential is missing.
ConfigError ==
    \/ email_column_var = "" \/ email_column_var = "Not Mapped"
    \/ ~InSeq(email_column_var, csv_headers)
    \/ email_subject_var = <<>> \/ email_body = <<>>
    \/ smtp_email_var = "" \/ smtp_password_var = ""

\* A dispatch run starts: its list is handed to _perform_email_sending,
\* which opens the connection.
RunStarts == pc # "connect" /\ pc' = "connect"

\* C15: with a configuration error, the start of a bulk send fails before
\* any row is processed and before any connection is opened: no run starts,
\* and the ledger, the timers and the counts stay as they were.
C15_ConfigErrorFailsStart ==
    [][ConfigError => /\ ~RunStarts
                      /\ run' = run
                      /\ UNCHANGED <<scheduled_campaigns, file, issued, timers>>]_vars

\* ------------------------------------- one send, for any template and row
\* The texts a cell of the table can hold: a name, nothing, the spelling of
\* the last placeholder, the spelling of the first.
CellTexts == {<<"Ada">>, <<>>, <<"{{ROLE}}">>, <<"{{FIRST_NAME}}">>}
RenderRows == {Row("a@x.io", first, org) : first \in CellTexts, org \in CellTexts}

\* The templates: with known tokens, with a token outside the placeholder
\* set only, with none.
RenderSubjects == {SubjectTemplate, <<"Hello", "{{NICKNAME}}">>}
RenderBodies ==
    {BodyTemplate, <<"Dear", "{{NICKNAME}}", "friend">>, <<"Dear", "friend">>,
     <<"{{ROLE}}", "{{NICKNAME}}", "{{COMPANY_NAME}}", "{{FIRST_NAME}}">>}

\* The mappings picked in the dropdowns: the saved ones, or others.
RenderMappings ==
    {MappingsOn(Headers),
     [FIRST_NAME |-> "Company", LAST_NAME |-> "First Name",
      COMPANY_NAME |-> "Not Mapped", ROLE |-> "First Name"]}

InitRender ==
    /\ variant \in ListVariants
    /\ \E row \in RenderRows, subject \in RenderSubjects, body \in RenderBodies,
          mappings \in RenderMappings :
          Loaded(Headers, <<row>>, "Email", mappings, subject, body,
                 Profiles[DEFAULT_PROFILE_NAME].smtp_email,
                 Profiles[DEFAULT_PROFILE_NAME].smtp_password)

\* The Send button.
RenderNext ==
    \/ \E confirm \in BOOLEAN : send_emails_process_QAQA(confirm)
    \/ \E confirm \in BOOLEAN : send_emails_process_timer(confirm)
    \/ send_emails_internship

RenderSpec == InitRender /\ [][RenderNext]_vars

\* A known placeholder token occurs in the text.
HasKnownToken(text) == \E k \in DOMAIN text : text[k] \in KnownTokens

\* C16: token totality: whatever the values hold, the rendered subject and
\* body of a template that contains a known placeholder token contain no
\* known placeholder token.
C16_NoKnownTokenLeft ==
    pc = "connect" =>
        \A k \in DOMAIN run.emails :
            /\ HasKnownToken(email_subject_var) => ~HasKnownToken(run.emails[k].subject)
            /\ HasKnownToken(email_body) => ~HasKnownToken(run.emails[k].body)

\* The template with every placeholder token replaced by its value in one
\* pass: what is inserted is not looked at again.
RECURSIVE C17_RenderVerbatim(_, _, _)
C17_RenderVerbatim(text, mappings, row) ==
    IF text = <<>> THEN <<>>
    ELSE (IF Head(text) \in KnownTokens
          THEN LET k == CHOOSE j \in DOMAIN DEFAULT_PLACEHOLDERS :
                            DEFAULT_PLACEHOLDERS[j].token = Head(text)
               IN  ValueToInsert(mappings, DEFAULT_PLACEHOLDERS[k].key, row)
          ELSE <<Head(text)>>)
         \o C17_RenderVerbatim(Tail(text), mappings, row)

\* C17: replacement is literal: a cell value that holds the spelling of a
\* known placeholder token is inserted verbatim and is not expanded again by
\* the replacement of a later placeholder: the rendered text is the
\* template with each of its tokens replaced by its value.
C17_ValuesInsertedVerbatim ==
    pc = "connect" =>
        \A k \in DOMAIN run.emails :
            LET row == csv_data[run.emails[k].row_identifier]
            IN  /\ run.emails[k].subject = C17_RenderVerbatim(email_subject_var, column_mappings, row)
                /\ run.emails[k].body = C17_RenderVerbatim(email_body, column_mappings, row)

\* How often the token occurs in the text.
Occurrences(text, token) == Cardinality({k \in DOMAIN text : text[k] = token})

HeaderLists ==
    {Headers,
     <<"Email Address", "First Name", "Org">>,
     <<"Company", "E-mail", "Email", "Employer">>,
     <<"Org">>}
HeaderNames == UNION {{h[k] : k \in DOMAIN h} : h \in HeaderLists}

\* A file of one row with the given headers.
TableOn(headers) ==
    << [col \in {headers[k] : k \in DOMAIN headers} |->
           IF col \in {"Email", "E-mail", "Email Address"} THEN "a@x.io" ELSE <<"Ada">>] >>

\* The user picks the column of a placeholder in its dropdown
\* (QAQA.py:471-484).
SelectMapping(key, col) ==
    /\ UiFree
    /\ col = "Not Mapped" \/ InSeq(col, csv_headers)
    /\ column_mappings[key] # col
    /\ column_mappings' = [column_mappings EXCEPT ![key] = col]
    /\ UNCHANGED <<variant, suspended, now, csv_headers, csv_data, email_column_var,
                   email_subject_var, email_body, profileVars, uiScheduleVars, ledgerVars,
                   timers, pc, run, checkVars, config_active>>

\* A file is loaded.
LoadAny == \E headers \in HeaderLists : LoadTable(headers, TableOn(headers))

InitDetect == Init /\ variant \in ConfigVariants

\* Files are loaded and columns are picked, in any order.
DetectNext ==
    \/ LoadAny
    \/ \E col \in HeaderNames \cup {"Not Mapped"} : SelectEmailColumn(col)
    \/ \E key \in {"FIRST_NAME", "COMPANY_NAME"} :
          \E col \in HeaderNames \cup {"Not Mapped"} : SelectMapping(key, col)

DetectSpec == InitDetect /\ [][DetectNext]_vars

\* Nothing is mapped.
NothingMapped ==
    /\ email_column_var \in {"", "Not Mapped"}
    /\ \A key \in PlaceholderKeys : column_mappings[key] \in {"", "Not Mapped"}

\* C19: with nothing mapped, loading a file whose headers are "Email
\* Address", "First Name", "Org" maps the email column to "Email Address".
C19_EmailAddressDetected ==
    [][(LoadAny /\ NothingMapped /\ csv_headers' = <<"Email Address", "First Name", "Org">>)
           => email_column_var' = "Email Address"]_vars

\* C20: auto-detection never changes a mapping that already names a header
\* of the loaded table, and running it again on its own result changes
\* nothing.
C20_DetectionKeepsAndIsIdempotent ==
    [][LoadAny =>
          /\ InSeq(email_column_var, csv_headers') => email_column_var' = email_column_var
          /\ \A key \in PlaceholderKeys :
                InSeq(column_mappings[key], csv_headers')
                    => column_mappings'[key] = column_mappings[key]
          /\ auto_detect_columns(csv_headers', email_column_var', column_mappings')
                = [email_column |-> email_column_var', column_mappings |-> column_mappings']
       ]_vars

C20_Witness ==
    /\ csv_headers = <<"Company", "E-mail", "Email", "Employer">>
    /\ email_column_var = "Email"
    /\ column_mappings["COMPANY_NAME"] = "Employer"
    /\ column_mappings["FIRST_NAME"] = "Not Mapped"

\* ------------------------------------------- header rows as the file has them
\* Python's order of str values (by code point) on the header names used.
PyStrOrder ==
    <<"Company", "E-mail", "Email", "Email Address", "Employer", "First Name", "Org">>

\* sorted(list(combined_headers))
sorted(names) == SelectSeq(PyStrOrder, LAMBDA h : h \in names)

\* The header rows of the files, in the files' column order.
FieldLists ==
    {Headers,
     <<"Email", "E-mail", "Employer", "Company">>,
     <<"Employer", "Company", "Email">>,
     <<"Org", "First Name", "Email Address">>,
     <<"Company", "E-mail", "Email", "Employer">>}

\* The header list a variant keeps of a file's header row: QAQA, F_EMAIL and
\* GEMEME collect the names in a set and sort it, email_sent_gemini keeps
\* reader.fieldnames.
HeadersKept(fieldnames) ==
    IF variant \in ProfileVariants
    THEN sorted({fieldnames[k] : k \in DOMAIN fieldnames})
    ELSE fieldnames

\* load_csv_files -> _load_csv_data_from_paths for one file with the given
\* header row
load_csv_fields(fieldnames) ==
    LoadTable(HeadersKept(fieldnames), TableOn(fieldnames))

\* Files are loaded and columns are picked, in any order.
FieldNext ==
    \/ \E fieldnames \in FieldLists : load_csv_fields(fieldnames)
    \/ \E col \in HeaderNames \cup {"Not Mapped"} : SelectEmailColumn(col)
    \/ \E key \in {"FIRST_NAME", "COMPANY_NAME"} :
          \E col \in HeaderNames \cup {"Not Mapped"} : SelectMapping(key, col)

FieldSpec == InitDetect /\ [][FieldNext]_vars

\* The email column and the placeholders that detection fills from the
\* file with the given header row are filled with the first matching header
\* of that row.
FirstOfRowWins(fieldnames) ==
    /\ (~InSeq(email_column_var, csv_headers')
          /\ FirstMatch(fieldnames, AUTO_DETECT_PATTERNS.email_column) # PyNone)
        => email_column_var' = FirstMatch(fieldnames, AUTO_DETECT_PATTERNS.email_column)
    /\ \A key \in PlaceholderKeys :
          (~InSeq(column_mappings[key], csv_headers')
             /\ FirstMatch(fieldnames, AUTO_DETECT_PATTERNS[key]) # PyNone)
          => column_mappings'[key] = FirstMatch(fieldnames, AUTO_DETECT_PATTERNS[key])

\* C21: when several headers of a file match the patterns of the same
\* placeholder (or of the email column), detection picks the one that
\* comes first in the header row of the file.
C21_FirstInTableOrderWins ==
    [][\A fieldnames \in FieldLists :
          load_csv_fields(fieldnames) => FirstOfRowWins(fieldnames)]_vars

\* ------------------------------------- manual, test and custom-batch sends
\* What the fields of the Manual Send tab hold when a button is pressed:
\* the recipient and the values of the placeholders.
ManualFields ==
    [recipient_email : {"a@x.io", "not-an-email"}, first_name : {<<"Ada">>, <<>>},
     company_name : {<<"Acme">>}, role : {<<>>}]
Tabs == {"Bulk Send", "Manual Send"}

\* QAQA.py:699-700: the template with the values of the Manual Send tab,
\* {{LAST_NAME}} taken out last
RenderManual(text, m) ==
    Replace(Replace(Replace(Replace(text, "{{FIRST_NAME}}", m.first_name),
                            "{{COMPANY_NAME}}", m.company_name),
                    "{{ROLE}}", m.role),
            "{{LAST_NAME}}", <<>>)

\* QAQA.py:730-731: every placeholder replaced in turn by its test value
RECURSIVE FillFrom(_, _, _)
FillFrom(text, fill, k) ==
    IF k > Len(DEFAULT_PLACEHOLDERS) THEN text
    ELSE FillFrom(Replace(text, DEFAULT_PLACEHOLDERS[k].token,
                          fill[DEFAULT_PLACEHOLDERS[k].key]),
                  fill, k + 1)

\* `value or default`
Or(value, default) == IF value = <<>> THEN default ELSE value

\* QAQA.py:711-728: test_fill_data, by placeholder key
TestFillData(tab, m) ==
    CASE tab = "Manual Send" /\ (m.first_name # <<>> \/ m.company_name # <<>>) ->
            [key \in PlaceholderKeys |->
                CASE key = "FIRST_NAME" -> Or(m.first_name, <<"[TEST_FIRST_NAME]">>)
                  [] key = "COMPANY_NAME" -> Or(m.company_name, <<"[TEST_COMPANY]">>)
                  [] key = "ROLE" -> Or(m.role, <<"[TEST_ROLE]">>)
                  [] OTHER -> <<>>]
      [] csv_data # <<>> ->
            [key \in PlaceholderKeys |->
                LET col == column_mappings[key]
                IN  IF col # "" /\ col # "Not Mapped" /\ col \in DOMAIN csv_data[1]
                    THEN csv_data[1][col]
                    ELSE <<"[", key, "_TEST_DATA]">>]
      [] OTHER ->
            [key \in PlaceholderKeys |-> <<"[", key, "_GENERIC_TEST]">>]

\* send_manual_email_process (QAQA.py:686-704, F_EMAIL.py:898-939,
\* GEMEME.py:825-865): one message to the address of the Manual Send tab, sent
\* with is_test=True.
send_manual_email_process(m, confirm) ==
    LET email_details ==
            << [recipient_email |-> m.recipient_email,
                subject |-> RenderManual(email_subject_var, m),
                body |-> RenderManual(email_body, m),
                row_identifier |-> "Manual Send"] >>
        stay == UNCHANGED <<pc, run>>
    IN
    /\ UiFree
    /\ variant \in ProfileVariants
    /\ CASE m.recipient_email = "" \/ ~is_valid_email(m.recipient_email) ->
               dialog' = "Valid recipient email is required." /\ stay
         [] is_valid_email(m.recipient_email)
                /\ (smtp_email_var = "" \/ smtp_password_var = "") ->
               dialog' = "Gmail address or App Password not set in active profile." /\ stay
         [] is_valid_email(m.recipient_email) /\ smtp_email_var # ""
                /\ smtp_password_var # "" /\ ~is_valid_email(smtp_email_var) ->
               dialog' = "Invalid sender Gmail address format." /\ stay
         [] is_valid_email(m.recipient_email) /\ smtp_password_var # ""
                /\ is_valid_email(smtp_email_var)
                /\ (email_subject_var = <<>> \/ email_body = <<>>) ->
               dialog' = "Email subject or body empty in active profile." /\ stay
         [] OTHER ->
               /\ dialog' = dialog
               /\ IF confirm
                  THEN /\ run' = NewRun(email_details, TRUE, NoId, NoEntry, NoDt)
                       /\ pc' = "connect"
                  ELSE stay
    /\ UNCHANGED <<variant, suspended, now, tableVars, profileVars, uiScheduleVars, ledgerVars,
                   timers, queue, startup_due, startup_pending, config_active>>

\* send_test_email_process (QAQA.py:706-733, F_EMAIL.py:942-988,
\* GEMEME.py:868-912): one message to the sender's own address, sent with
\* is_test=True.  tab: the tab that is open.
send_test_email_process(tab, m, confirm) ==
    LET fill == TestFillData(tab, m)
        email_details ==
            << [recipient_email |-> smtp_email_var,
                subject |-> <<"[TEST EMAIL]">> \o FillFrom(email_subject_var, fill, 1),
                body |-> FillFrom(email_body, fill, 1),
                row_identifier |-> "Test Email"] >>
        stay == UNCHANGED <<pc, run>>
    IN
    /\ UiFree
    /\ variant \in ProfileVariants
    /\ CASE smtp_email_var = "" \/ ~is_valid_email(smtp_email_var) ->
               dialog' = "Your (sender) Gmail address is not set or invalid in active profile."
                   /\ stay
         [] is_valid_email(smtp_email_var)
                /\ (email_subject_var = <<>> \/ email_body = <<>>) ->
               dialog' = "Email subject or body empty in active profile." /\ stay
         [] OTHER ->
               /\ dialog' = dialog
               /\ IF confirm
                  THEN /\ run' = NewRun(email_details, TRUE, NoId, NoEntry, NoDt)
                       /\ pc' = "connect"
                  ELSE stay
    /\ UNCHANGED <<variant, suspended, now, tableVars, profileVars, uiScheduleVars, ledgerVars,
                   timers, queue, startup_due, startup_pending, config_active>>

\* The custom batches the user has composed: save_custom_email
\* (QAQA.py:803-816) admits an entry only with a valid recipient and a
\* subject and a body that are not empty.
CustomEntries ==
    [recipient_email : {"a@x.io", "b@y.org"}, subject : {<<"Hi">>}, body : {<<"Text">>}]
CustomBatches ==
    {<<>>} \cup {<<e>> : e \in CustomEntries}
           \cup {<<e, f>> : e \in CustomEntries, f \in CustomEntries}

\* send_custom_email_batch_process (QAQA.py:842-859) for the batch the
\* Custom Batch tab holds.
send_custom_email_batch_process(custom_email_batch, confirm) ==
    LET emails_to_send_list_for_smtp ==
            [i \in DOMAIN custom_email_batch |->
                [recipient_email |-> custom_email_batch[i].recipient_email,
                 subject |-> custom_email_batch[i].subject,
                 body |-> custom_email_batch[i].body,
                 row_identifier |-> <<"Custom Batch Email", i>>]]
        stay == UNCHANGED <<pc, run>>
    IN
    /\ UiFree
    /\ variant \in LedgerVariants
    /\ CASE custom_email_batch = <<>> ->
               dialog' = "No custom emails in the batch to send." /\ stay
         [] custom_email_batch # <<>> /\ (smtp_email_var = "" \/ smtp_password_var = "") ->
               dialog' = "Gmail address or App Password not set in active profile." /\ stay
         [] custom_email_batch # <<>> /\ smtp_email_var # "" /\ smtp_password_var # ""
                /\ ~is_valid_email(smtp_email_var) ->
               dialog' = "Invalid sender Gmail address format." /\ stay
         [] OTHER ->
               /\ dialog' = dialog
               /\ IF confirm
                  THEN /\ run' = NewRun(emails_to_send_list_for_smtp, FALSE, NoId, NoEntry,
                                        NoDt)
                       /\ pc' = "connect"
                  ELSE stay
    /\ UNCHANGED <<variant, suspended, now, tableVars, profileVars, uiScheduleVars, ledgerVars,
                   timers, queue, startup_due, startup_pending, config_active>>

\* A session of QAQA, F_EMAIL or GEMEME with the table loaded, in which
\* every kind of send is started.
InitMode ==
    /\ variant \in ProfileVariants
    /\ config_active = DEFAULT_PROFILE_NAME
    /\ \E sender \in SenderTexts :
          Loaded(Headers, [k \in 1..MaxRows |-> FullTable(k)], "Email", SavedMappings,
                 SubjectTemplate, BodyTemplate, sender,
                 Profiles[DEFAULT_PROFILE_NAME].smtp_password)

ModeNext ==
    \/ \E confirm \in BOOLEAN : send_emails_process_QAQA(confirm)
    \/ \E confirm \in BOOLEAN : send_emails_process_timer(confirm)
    \/ \E m \in ManualFields : \E confirm \in BOOLEAN : send_manual_email_process(m, confirm)
    \/ \E tab \in Tabs : \E m \in ManualFields : \E confirm \in BOOLEAN :
          send_test_email_process(tab, m, confirm)
    \/ \E batch \in CustomBatches : \E confirm \in BOOLEAN :
          send_custom_email_batch_process(batch, confirm)
    \/ Dismiss
    \/ RunStep

ModeSpec == InitMode /\ [][ModeNext]_vars

\* C22: when attaching the file fails for a recipient, no message is
\* transmitted to that recipient, the recipient is not counted as sent and
\* the loop goes on to the next recipient, in every kind of run (bulk,
\* custom batch, manual single send, test send).
C22_AttachFailureSkipsRecipient ==
    [][\A send_ok \in BOOLEAN :
          SendOne("fail", send_ok) =>
              /\ run'.n_calls = run.n_calls
              /\ run'.sent_count = run.sent_count
              /\ run'.i = run.i + 1
              /\ pc' = "loop"]_vars

\* ------------------------------ bulk_email_sender_app.py: the UI handlers
\* field.lower() in header.lower(), word by word
ContainsLower(header, field) ==
    LET hw == [k \in DOMAIN Words(header) |-> Lower(Words(header)[k])]
        fw == [k \in DOMAIN Words(field) |-> Lower(Words(field)[k])]
    IN  \E off \in 0..(Len(hw) - Len(fw)) : SubSeq(hw, off + 1, off + Len(fw)) = fw

\* bulk_email_sender_app.py:275-279: the first header that contains the
\* field's name, "" when there is none
AutoSelect(headers, field) ==
    IF \E k \in DOMAIN headers : ContainsLower(headers[k], field)
    THEN headers[CHOOSE k \in DOMAIN headers :
                    /\ ContainsLower(headers[k], field)
                    /\ \A j \in 1..(k - 1) : ~ContainsLower(headers[j], field)]
    ELSE ""

\* The files of this variant: header row and data rows.
ThreadHeaders == <<"Email", "First Name", "Last Name", "Company Name", "Role">>
ThreadRow(email, first, org) ==
    [h \in {ThreadHeaders[k] : k \in DOMAIN ThreadHeaders} |->
        CASE h = "Email" -> email
          [] h = "First Name" -> first
          [] h = "Company Name" -> org
          [] OTHER -> <<>>]
ThreadFiles ==
    {[headers |-> ThreadHeaders,
      rows |-> <<ThreadRow("a@x.io", <<"Ada">>, <<"Acme">>),
                 ThreadRow("not-an-email", <<"Bob">>, <<"Bolt">>)>>],
     [headers |-> ThreadHeaders,
      rows |-> <<ThreadRow("b@y.org", <<"Cy">>, <<"Cyan">>),
                 ThreadRow("a@x.io", <<"Dee">>, <<"Dell">>)>>],
     [headers |-> ThreadHeaders,
      rows |-> <<ThreadRow("b@y.org", <<"Cy">>, <<"Cyan">>)>>],
     [headers |-> <<"Email", "First Name">>,
      rows |-> <<[h \in {"Email", "First Name"} |->
                     IF h = "Email" THEN "a@x.io" ELSE <<"Ada">>]>>]}
ThreadTemplate == <<"Dear", "{{First Name}}", "{{Last Name}}", "at", "{{Company Name}}">>

\* browse_csv_file -> load_csv_data (bulk_email_sender_app.py:231-305) for a
\* file with data rows.  Nothing keeps the handler from running while the
\* sender thread is at work.
load_csv_data(f) ==
    /\ variant = "bulk_email_sender_app"
    /\ dialog = "none"
    /\ csv_headers' = f.headers
    /\ csv_data' = f.rows
    /\ column_mappings' = [field \in FieldNames |-> AutoSelect(f.headers, field)]
    /\ UNCHANGED <<variant, suspended, now, email_column_var, email_subject_var, email_body,
                   profileVars, uiScheduleVars, ledgerVars, timers, pc, run, checkVars,
                   config_active>>

\* The checks of send_emails (bulk_email_sender_app.py:413-445): the text of
\* the error box, or "ok".
ThreadCheck ==
    CASE csv_data = <<>> -> "No CSV data loaded"
      [] csv_data # <<>> /\ \E field \in FieldNames : column_mappings[field] = "" ->
            "Missing mappings"
      [] csv_data # <<>> /\ (\A field \in FieldNames : column_mappings[field] # "")
             /\ cv_file_path = "" -> "Invalid PDF file path"
      [] csv_data # <<>> /\ (\A field \in FieldNames : column_mappings[field] # "")
             /\ cv_file_path # "" /\ (smtp_email_var = "" \/ smtp_password_var = "") ->
            "Email credentials are required"
      [] OTHER -> "ok"

\* send_emails (bulk_email_sender_app.py:412-468): the Send button is disabled
\* and the thread is started with the template, the email column and the
\* test-mode flag as they are now.  test_mode: the state of the checkbox.
send_emails(test_mode) ==
    /\ variant = "bulk_email_sender_app"
    /\ pc = "idle"
    /\ dialog = "none"
    /\ IF ThreadCheck # "ok"
       THEN /\ dialog' = ThreadCheck
            /\ UNCHANGED <<pc, run>>
       ELSE /\ dialog' = dialog
            /\ run' = NewRun(csv_data, test_mode, NoId, NoEntry, NoDt)
                         @@ [template |-> email_body,
                             email_col_index |-> column_mappings["Email"]]
            /\ pc' = "connect"
    /\ UNCHANGED <<variant, suspended, now, tableVars, profileVars, uiScheduleVars, ledgerVars,
                   timers, queue, startup_due, startup_pending, config_active>>

\* A session of bulk_email_sender_app.py with the settings entered.
InitThread ==
    /\ variant = "bulk_email_sender_app"
    /\ config_active = DEFAULT_PROFILE_NAME
    /\ \E sender \in SenderTexts :
          Loaded(<<>>, <<>>, "", [field \in FieldNames |-> ""],
                 <<"Internship Opportunity Request">>, ThreadTemplate, sender,
                 Profiles[DEFAULT_PROFILE_NAME].smtp_password)

\* The UI thread and the sender thread, interleaved.
ThreadNext ==
    \/ \E f \in ThreadFiles : load_csv_data(f)
    \/ \E test_mode \in BOOLEAN : send_emails(test_mode)
    \/ Dismiss
    \/ RunStep

ThreadSpec == InitThread /\ [][ThreadNext]_vars

\* A pass of a test-mode run hands a message to the transport.
TestMessageSent ==
    /\ variant = "bulk_email_sender_app"
    /\ pc = "loop"
    /\ run.is_test
    /\ run'.n_calls = run.n_calls + 1

C24_EachEntryAttemptedOnce ==
    [][(pc = "loop" /\ pc' = "loop" /\ run' # run) =>
          /\ run'.emails = run.emails
          /\ run'.i = run.i + 1
          /\ run'.n_calls \in {run.n_calls, run.n_calls + 1}
          /\ run'.n_calls <= run'.i
          /\ run'.n_calls = run.n_calls + 1 =>
                /\ run'.last_call.to = run.emails[run.i + 1].recipient_email
                /\ run'.last_call.subject = run.emails[run.i + 1].subject
       ]_vars

C24_Witness ==
    /\ pc = "finally"
    /\ run.error = "none"
    /\ Len(run.emails) >= 2
    /\ run.i = Len(run.emails)
    /\ run.n_calls = Len(run.emails)
    /\ run.failed_count >= 1
    /\ run.sent_count >= 1

\* The close of the connection after the last recipient raises.
QuitFails == pc = "loop" /\ pc' = "finally" /\ run'.conn = "broken"

\* C25: a failure while closing the connection after the last recipient
\* leaves sent_count and failed_count, and so the tally of the closing log
\* line, exactly as they were when the send loop ended.
C25_CloseFailureKeepsTally ==
    [][QuitFails =>
          /\ run'.sent_count = run.sent_count
          /\ run'.failed_count = run.failed_count
          /\ FinalTally(run') = FinalTally(run)
          /\ run'.error # "none"]_vars

C25_Witness ==
    /\ pc = "finally"
    /\ run.conn = "broken"
    /\ run.error = "SMTPServerDisconnected"
    /\ run.sent_count >= 1
    /\ run.failed_count >= 1
    /\ run.sent_count + run.failed_count = Len(run.emails)

\* A non-test run of QAQA, F_EMAIL or GEMEME is in or past its loop: the
\* login succeeded.
InOrPastLoop ==
    /\ variant \in ProfileVariants
    /\ pc \in {"loop", "finally"}
    /\ ~run.is_test
    /\ run.conn # "none"
    /\ run.error \notin ConnectFailures \cup LoginFailures

\* C26: in a non-test dispatch run whose login succeeded, after the i-th
\* recipient has been processed sent_count + failed_count = i and the
\* progress value is i; when the loop has ended i = N, so that sent_count +
\* failed_count = N.
C26_CountsAddUpToProcessed ==
    InOrPastLoop =>
        /\ run.sent_count + run.failed_count = run.i
        /\ run.progress = run.i
        /\ pc = "finally" =>
              /\ run.i = Len(run.emails)
              /\ run.sent_count + run.failed_count = Len(run.emails)

C26_Witness ==
    /\ InOrPastLoop
    /\ pc = "loop"
    /\ run.i = 2
    /\ run.sent_count = 1
    /\ run.failed_count = 1
    /\ run.n_calls = 1

\* A dispatch run starts for the ledger entry with the given campaign id.
RunStartsFor(cid) == pc # "connect" /\ pc' = "connect" /\ run'.cid = cid

\* The campaign ids handed out so far.
IssuedIds == {NewId(n) : n \in 0..(MaxCampaigns + 1)}

\* C27: each scheduled campaign is dispatched at most once.  A campaign's
\* entry leaves the ledger only at the end of a dispatch run for it, so a
\* run for a campaign must start only while its entry is in the ledger and
\* while no other run for it is waiting in a message box: under every
\* interleaving of the start-up due-check and its prompt, the periodic
\* due-check and the removal of entries.
C27_DispatchedAtMostOnce ==
    [][\A cid \in IssuedIds :
          RunStartsFor(cid) =>
              /\ cid \in DOMAIN scheduled_campaigns
              /\ \A k \in DOMAIN suspended : suspended[k].run.cid # cid]_vars

\* C28: every connection a dispatch run opens is closed (quit is called on
\* it) before the run finishes, on every exit path: when the run is at its
\* finally clause no connection of it is still open.
C28_ConnectionClosedAtExit ==
    pc = "finally" => run.conn \in {"none", "closed", "broken"}

\* -------------------------------------- a start with overdue campaigns
\* The entry of a campaign that was scheduled under the Default Profile for
\* the given time.
SavedEntry(dt) ==
    [scheduled_datetime_str |-> FmtDateTimeS(dt),
     emails_to_send_list |->
         build_send_list([k \in 1..MaxRows |-> FullTable(k)], "Email", SavedMappings,
                         SubjectTemplate, BodyTemplate),
     sender_email |-> Profiles[DEFAULT_PROFILE_NAME].smtp_email,
     sender_password |-> Profiles[DEFAULT_PROFILE_NAME].smtp_password,
     cv_path |-> Profiles[DEFAULT_PROFILE_NAME].cv_file_path, status |-> "pending",
     profile_name_at_schedule |-> DEFAULT_PROFILE_NAME]

\* QAQA right after __init__, started on a ledger file that holds n
\* campaigns whose time has passed.
StartedWithOverdue(n) ==
    /\ variant = "QAQA"
    /\ now = 1
    /\ csv_headers = <<>>
    /\ csv_data = <<>>
    /\ email_column_var = "Not Mapped"
    /\ column_mappings = [key \in PlaceholderKeys |-> "Not Mapped"]
    /\ email_subject_var = SubjectTemplate
    /\ email_body = BodyTemplate
    /\ active_profile_name = DEFAULT_PROFILE_NAME
    /\ smtp_email_var = Profiles[DEFAULT_PROFILE_NAME].smtp_email
    /\ smtp_password_var = Profiles[DEFAULT_PROFILE_NAME].smtp_password
    /\ cv_file_path = Profiles[DEFAULT_PROFILE_NAME].cv_file_path
    /\ enable_cc_var = Profiles[DEFAULT_PROFILE_NAME].enable_cc
    /\ cc_email_var = Profiles[DEFAULT_PROFILE_NAME].cc_email
    /\ profile_schedule_date_var = ""
    /\ profile_schedule_time_var = ""
    /\ ui_schedule_date_var = UiScheduleAtStart(1)[1]
    /\ ui_schedule_time_var = UiScheduleAtStart(1)[2]
    /\ preferred_send_time_var = ""
    /\ scheduled_campaigns = [cid \in {NewId(k - 1) : k \in 1..n} |-> SavedEntry(0)]
    /\ file = save_scheduled_campaigns_to_file(scheduled_campaigns)
    /\ issued = n
    /\ timers = {}
    /\ pc = "idle"
    /\ run = IdleRun
    /\ queue = <<>>
    /\ startup_due = <<>>
    /\ dialog = "none"
    /\ startup_pending = TRUE
    /\ suspended = <<>>
    /\ config_active = DEFAULT_PROFILE_NAME

InitDecline == \E n \in 1..MaxCampaigns : StartedWithOverdue(n)

\* A session in which the user answers No to the start-up prompt.
DeclineNext ==
    \/ Tick
    \/ \E texts \in ScheduleTexts : EditSchedule(texts)
    \/ check_for_pending_scheduled_jobs
    \/ AnswerPending(FALSE)
    \/ periodic_schedule_check
    \/ send_emails_process_scheduled
    \/ Dismiss
    \/ RunStep

DeclineSpec == InitDecline /\ [][DeclineNext]_vars

\* The start-up prompt has been answered.
PromptAnswered == ~startup_pending /\ startup_due = <<>>

\* C29: when the user answers No to the start-up prompt about the overdue
\* campaigns, those campaigns stay pending in the ledger, and no later
\* automatic check of the session dispatches them.
C29_DeclinedNotDispatched ==
    /\ [][(startup_due # <<>> /\ startup_due' = <<>>) =>
             /\ queue' = <<>>
             /\ scheduled_campaigns' = scheduled_campaigns
             /\ \A cid \in DOMAIN scheduled_campaigns :
                   scheduled_campaigns[cid].status = "pending"]_vars
    /\ [][PromptAnswered => \A cid \in IssuedIds : ~RunStartsFor(cid)]_vars

\* ----------------------------------------- email_app.py: the page's steps
\* The table of the uploaded file, and the token mapping the user picks.
AppMappings ==
    {[t \in {NEUTRAL_TOKENS[k] : k \in DOMAIN NEUTRAL_TOKENS} |->
         IF t = "A_01" THEN first ELSE PyNone] : first \in {PyNone, "First Name"}}
AppSubject == <<"Hi", "{{A_01}}">>
AppBody == <<"Dear", "{{A_01}}", "{{A_02}}", "{{NICKNAME}}">>

\* st.file_uploader + pd.read_csv (email_app.py:262-268): a new file resets
\* the selections.
upload_csv(table) ==
    /\ variant = "email_app"
    /\ pc = "idle"
    /\ csv_headers' = Headers
    /\ csv_data' = table
    /\ email_column_var' = PyNone
    /\ column_mappings' = [t \in DOMAIN column_mappings |-> PyNone]
    /\ UNCHANGED <<variant, suspended, now, email_subject_var, email_body, profileVars,
                   uiScheduleVars, ledgerVars, timers, pc, run, checkVars, config_active>>

\* The selectboxes of email_app.py:276-281.
select_columns(email_column, mappings) ==
    /\ variant = "email_app"
    /\ pc = "idle"
    /\ csv_data # <<>>
    /\ InSeq(email_column, csv_headers)
    /\ email_column_var' = email_column
    /\ column_mappings' = mappings
    /\ UNCHANGED <<variant, suspended, now, csv_headers, csv_data, email_subject_var,
                   email_body, profileVars, uiScheduleVars, ledgerVars, timers, pc, run,
                   checkVars, config_active>>

\* The sidebar's CC checkbox and address (email_app.py:176-179).
set_cc(enabled) ==
    /\ variant = "email_app"
    /\ pc = "idle"
    /\ enable_cc_var' = enabled
    /\ cc_email_var' = IF enabled THEN "boss@z.de" ELSE ""
    /\ UNCHANGED <<variant, suspended, now, tableVars, active_profile_name, smtp_email_var,
                   smtp_password_var, cv_file_path, profile_schedule_date_var,
                   profile_schedule_time_var, preferred_send_time_var, uiScheduleVars,
                   ledgerVars, timers, pc, run, checkVars, config_active>>

\* The Send Bulk Emails button (email_app.py:286-296): the button is
\* disabled without a table; the loop starts when the credentials are set
\* and the email column is mapped.
send_bulk_emails ==
    /\ variant = "email_app"
    /\ pc = "idle"
    /\ dialog = "none"
    /\ csv_data # <<>>
    /\ CASE smtp_email_var = "" \/ smtp_password_var = "" ->
               /\ dialog' = "SMTP credentials are required in the sidebar."
               /\ UNCHANGED <<pc, run>>
         [] smtp_email_var # "" /\ smtp_password_var # "" /\ email_column_var = PyNone ->
               /\ dialog' = "Please map the 'Email Column' before sending."
               /\ UNCHANGED <<pc, run>>
         [] OTHER ->
               /\ dialog' = dialog
               /\ run' = NewRun(csv_data, FALSE, NoId, NoEntry, NoDt)
                            @@ [email_column |-> email_column_var,
                                mappings |-> column_mappings,
                                subject_template |-> email_subject_var,
                                body_template |-> email_body]
               /\ pc' = "loop"
    /\ UNCHANGED <<variant, suspended, now, tableVars, profileVars, uiScheduleVars, ledgerVars,
                   timers, queue, startup_due, startup_pending, config_active>>

\* email_app.py:317-333: after the loop the uploaded CSV file is mailed to a
\* fixed address; a failure of that send is swallowed.
forward_csv_log(send_ok) ==
    /\ variant = "email_app"
    /\ pc = "loop"
    /\ run.i = Len(run.emails)
    /\ run' = [run EXCEPT !.n_calls = @ + 1,
                          !.last_call =
                              [to |-> "toshak.bhat.work@gmail.com",
                               rcpts |-> SendMessageRecipients("toshak.bhat.work@gmail.com",
                                                               PyNone),
                               subject |-> <<"CSV Log from Outreach Tool">>,
                               body |-> <<"Auto-log: CSV used in the latest deployment.">>,
                               attached |-> TRUE, ok |-> send_ok]]
    /\ pc' = "finally"
    /\ UNCHANGED <<variant, suspended, now, tableVars, profileVars, uiScheduleVars, ledgerVars,
                   timers, checkVars, config_active>>

\* The page with the credentials and the templates entered.
InitApp ==
    /\ variant = "email_app"
    /\ config_active = DEFAULT_PROFILE_NAME
    /\ \E sender \in SenderTexts :
          Loaded(<<>>, <<>>, PyNone,
                 [t \in {NEUTRAL_TOKENS[k] : k \in DOMAIN NEUTRAL_TOKENS} |-> PyNone],
                 AppSubject, AppBody, sender, Profiles[DEFAULT_PROFILE_NAME].smtp_password)

AppNext ==
    \/ \E table \in Tables : upload_csv(table)
    \/ \E m \in AppMappings : select_columns("Email", m)
    \/ \E enabled \in BOOLEAN : set_cc(enabled)
    \/ send_bulk_emails
    \/ \E attach \in {"none", "ok", "fail"} : \E send_ok \in BOOLEAN : SendOne(attach, send_ok)
    \/ \E send_ok \in BOOLEAN : forward_csv_log(send_ok)
    \/ Dismiss
    \/ Finish

AppSpec == InitApp /\ [][AppNext]_vars

\* The addresses of the rows of the table a bulk send works on.
RowAddresses == {RowGet(run.emails[k], "Email") : k \in DOMAIN run.emails}

\* C30: during a bulk send from a table every message handed to the
\* transport is addressed only to the email address of a table row, the
\* configured CC address or the sender's own address; nothing is sent to any
\* other address.
C30_OnlyTableCcOrSender ==
    (variant = "email_app" /\ pc \in {"loop", "finally"} /\ run.n_calls > 0) =>
        \A k \in DOMAIN run.last_call.rcpts :
            run.last_call.rcpts[k] \in RowAddresses \cup {run.cc_email, run.sender_email}

=============================================================================
